---- MODULE Spec2Model ----
(***************************************************************************)
(* Live-node directories of scylladb/alternator-load-balancing.            *)
(*                                                                         *)
(*   impl = "flag"   go/common/live_nodes.go   (updating-flag guarded)      *)
(*   impl = "idle"   unnamed/part_011          (idle-updater goroutine)     *)
(*   impl = "mutex"  go-v2/alternator_lb.go    (AlternatorNodes, mutex)     *)
(*   impl = "legacy" go/alternator_lb.go       (AlternatorNodes, mutex)     *)
(*   impl = "js"     javascript/Alternator.js  (module state, event loop)   *)
(*   impl = "java"   java/.../AlternatorLiveNodes.java (refresh thread)     *)
(*   impl = "csharp" unnamed/part_002          (C# refresh task)            *)
(*   impl = "http"   unnamed/part_018          (Java AlternatorHttpClient)  *)
(*   impl = "cpp"    cpp/AlternatorClient.h    (C++ AlternatorClient)       *)
(*                                                                         *)
(* Every shared-memory access of the Go code (atomic load, store, add,     *)
(* compare-and-swap, channel operation, clock read) is one step.           *)
(* Every event-loop turn of the JavaScript code is one step.               *)
(***************************************************************************)
EXTENDS Integers, Sequences, FiniteSets, TLC

\* ------------------------------------------------------------------ bounds
MaxTime == 2        \* the clock runs from 1 to MaxTime (unix seconds)
MaxCalls == 3       \* public operations started by the callers, in total
MaxNodes == 3       \* valid hostnames are 1..MaxNodes
MaxRounds == 2      \* iterations of the mutex variants' update loop, in total
FairRounds == 2     \* the harness makes FairRounds * K calls on a NodeSet of size K

Callers == {1, 2}
Goroutines == {11, 12}
Threads == Callers \cup Goroutines

\* ------------------------------------------------------------------- state
VARIABLES
    impl,               \* which implementation this behaviour is of
    cfg,                \* ALNConfig: [UpdatePeriod, IdleUpdatePeriod] in seconds, Rack, Datacenter
    options,            \* the rack and datacenter the application passed as options
    liveNodes,          \* aln.liveNodes (atomic pointer to a slice)
    initialNodes,       \* aln.initialNodes
    nextLiveNodeIdx,    \* aln.nextLiveNodeIdx
    updating,           \* aln.updating (flag variant)
    nextUpdate,         \* aln.nextUpdate
    idleUpdaterStarted, \* aln.idleUpdaterStarted (idle variant)
    ctxDone,            \* aln.ctx is cancelled
    updateSignal,       \* number of elements in aln.updateSignal (capacity 1)
    tickC,              \* the ticker's channel t.C holds a tick
    tickAt,             \* when the running ticker fires next, 0 without a running ticker
    now,                \* time.Now().UTC().Unix()
    thr,                \* per thread: position and locals
    calls,              \* public operations started so far
    nodes,              \* AlternatorNodes.nodes (mutex variants)
    nextNodeIndex,      \* AlternatorNodes.nextNodeIndex (next in the legacy file)
    mutex,              \* AlternatorNodes.mutex: 0 when free, else the holder
    ctxs,               \* the contexts Start created, TRUE when cancelled; n.ctx is the last
    rounds,             \* iterations of the update loop started so far
    js,                 \* the module variables of Alternator.js and its pending update chains
    httpClient,         \* the fields of the Java AlternatorHttpClient: hosts, hostIdx, closed
    alternatorClient,   \* the fields of the C++ AlternatorClient: _nodes, _node_idx, _keep_updating, _node_updater
    cursor,             \* the cursor counter at its full width, with the index next() computed last
    certSource,         \* the CertSource of go/common: certPath, cert, modTime
    certFile,           \* the certificate file on disk: whether Stat succeeds, its ModTime, the key pair it loads as
    harness,            \* TRUE in the runs of the lock-stepped test harness
    trace               \* what the harness collected: the calls' results in order

vars == <<impl, cfg, options, certFile, certSource, cursor, alternatorClient, httpClient, js, liveNodes, initialNodes, nextLiveNodeIdx, updating, nextUpdate,
          idleUpdaterStarted, ctxDone, updateSignal, tickC, tickAt, now, thr, calls,
          nodes, nextNodeIndex, mutex, ctxs, rounds, harness, trace>>

muVars == <<nodes, nextNodeIndex, mutex, ctxs, rounds>>

alnVars == <<liveNodes, initialNodes, nextLiveNodeIdx, updating, nextUpdate,
             idleUpdaterStarted, ctxDone, updateSignal, tickC, tickAt>>

\* ------------------------------------------------------------ node addresses
defaultScheme == "http"
defaultPort == 8080
BadHost == 0            \* a hostname url.Parse rejects
Hosts == 1..MaxNodes
None == "none"

\* an address that leaves the port out
urlParseNoPort(host) ==
    IF host = BadHost THEN [err |-> TRUE, url |-> None]
    ELSE [err |-> FALSE, url |-> <<defaultScheme, host, 0>>]

\* fmt.Sprintf("%s://%s:%d", cfg.Scheme, node, cfg.Port) followed by url.Parse
urlParse(host) ==
    IF host = BadHost THEN [err |-> TRUE, url |-> None]
    ELSE [err |-> FALSE, url |-> <<defaultScheme, host, defaultPort>>]

RECURSIVE parseAll(_)
\* the loop of getNodes: entries that do not parse are skipped
parseAll(hosts) ==
    IF hosts = <<>> THEN <<>>
    ELSE LET p == urlParse(Head(hosts))
         IN IF p.err THEN parseAll(Tail(hosts))
            ELSE <<p.url>> \o parseAll(Tail(hosts))

\* a constructor that takes any list, the empty one too
NewAlternatorLiveNodesAny(seeds) ==
    IF \E i \in 1..Len(seeds) : urlParse(seeds[i]).err
    THEN [err |-> TRUE, nodes |-> <<>>]
    ELSE [err |-> FALSE, nodes |-> [i \in 1..Len(seeds) |-> urlParse(seeds[i]).url]]

\* NewAlternatorLiveNodes: the constructor's result for a seed list
NewAlternatorLiveNodes(seeds) ==
    IF Len(seeds) = 0 THEN [err |-> TRUE, nodes |-> <<>>]
    ELSE IF \E i \in 1..Len(seeds) : urlParse(seeds[i]).err
         THEN [err |-> TRUE, nodes |-> <<>>]
         ELSE [err |-> FALSE, nodes |-> [i \in 1..Len(seeds) |-> urlParse(seeds[i]).url]]

\* seed lists handed to the constructor
SeedInputs == {<<>>, <<1, 2>>, <<BadHost>>, <<1, BadHost>>}

\* what a contacted node may answer to GET /localnodes
HostLists == {<<>>, <<2, BadHost, 1>>, <<1, 2, 3>>}
Responses ==
    {[kind |-> "neterr", status |-> 0, hosts |-> <<>>],
     [kind |-> "http", status |-> 500, hosts |-> <<1>>],
     [kind |-> "badjson", status |-> 200, hosts |-> <<>>]}
    \cup {[kind |-> "http", status |-> 200, hosts |-> h] : h \in HostLists}

\* getNodes without the test of the status code
getNodesAnyStatus(resp) ==
    IF resp.kind = "neterr" THEN [err |-> TRUE, uris |-> <<>>]
    ELSE IF resp.kind = "badjson" THEN [err |-> TRUE, uris |-> <<>>]
    ELSE [err |-> FALSE, uris |-> parseAll(resp.hosts)]

\* getNodes: error or the list of parsed addresses
getNodes(resp) ==
    IF resp.kind = "neterr" THEN [err |-> TRUE, uris |-> <<>>]
    ELSE IF resp.status # 200 THEN [err |-> TRUE, uris |-> <<>>]
    ELSE IF resp.kind = "badjson" THEN [err |-> TRUE, uris |-> <<>>]
    ELSE [err |-> FALSE, uris |-> parseAll(resp.hosts)]

\* nodes[i] of Go is zero-based and panics when i is out of range
InRange(s, i) == i >= 0 /\ i < Len(s)
Index(s, i) == s[i + 1]

\* the index taken modulo the length of the list of the moment, not of the snapshot
nextNodeSlotStale(snap, idx) == idx % Len(liveNodes)

\* aln.nextLiveNodeIdx.Add(1)%uint64(len(nodes)): idx is the value Add returned
nextNodeSlot(snap, idx) == idx % Len(snap)

\* the modulo by a zero length and the indexing out of range are the panics of nextNode
nextNodeOK(snap, idx) == Len(snap) > 0 /\ InRange(snap, nextNodeSlot(snap, idx))

\* NewALNConfig: the defaults, with the update period taken as one second
NewALNConfig == [UpdatePeriod |-> 1, IdleUpdatePeriod |-> 0, Rack |-> "", Datacenter |-> ""]

\* no WithRack, no WithDatacenter
NoOptions == [Rack |-> "", Datacenter |-> ""]

\* no response at hand
NoResp == [kind |-> None, status |-> 0, hosts |-> <<>>]

Idle == [pc |-> "idle", op |-> None, snap |-> <<>>, idx |-> 0, nu |-> 0, cur |-> 0,
         ret |-> None, res |-> NoResp, live |-> TRUE, adds |-> 0, req |-> 0,
         reqs |-> <<>>, uris |-> <<>>, depth |-> 0]
Free == [Idle EXCEPT !.pc = "free"]

\* positions inside updateLiveNodes
RefreshPcs == {"nn_load", "nn_add", "ul_fetch"}
RefreshOps == {"bg", "UpdateOnce", "idleUpd"}
InRefresh(t) == thr[t].op \in RefreshOps /\ thr[t].pc \in RefreshPcs

\* the lowest free goroutine slot
FreeSlot == CHOOSE g \in Goroutines : thr[g].pc = "free" /\ \A h \in Goroutines : thr[h].pc = "free" => g <= h

\* the harness appends what a call returned
NoTrace == [vals |-> <<>>, who |-> {}]
Collect(c) ==
    IF harness THEN [vals |-> Append(trace.vals, thr[c].ret), who |-> trace.who \cup {c}]
    ELSE trace

\* Alternator.js as loaded: hostIdx = 0, hosts undefined (the lookup treats it like
\* an empty list), done = false, enableBackgroundUpdates = true, no update chain;
\* dones counts the calls of done()
JsLoaded == [hosts |-> <<>>, hostIdx |-> 0, done |-> FALSE, enableBackgroundUpdates |-> TRUE,
             fetching |-> 0, sleeping |-> 0, dones |-> 0]

\* no AlternatorHttpClient was constructed
NoClient == [hosts |-> <<>>, hostIdx |-> 0, closed |-> FALSE]

\* no C++ AlternatorClient was constructed
NoAlternatorClient == [nodes |-> <<>>, node_idx |-> 0, keep_updating |-> FALSE,
                       node_updater |-> FALSE, destroyed |-> FALSE]

\* no counter at full width is followed
NoCursor == [value |-> 0, index |-> 0]

\* a nil *tls.Certificate, and the pair of a file LoadX509KeyPair cannot load
nil == 0

\* no CertSource was made, and no certificate file is looked at
NoCertSource == [certPath |-> "", cert |-> nil, modTime |-> 0]
NoCertFile == [stat |-> FALSE, modTime |-> 0, pair |-> nil]

InitALN ==
    /\ impl \in {"flag", "idle"}
    /\ cfg \in {[NewALNConfig EXCEPT !.IdleUpdatePeriod = p] : p \in IF impl = "idle" THEN {0, 1} ELSE {0}}
    /\ options = NoOptions
    /\ \E seeds \in SeedInputs :
          /\ ~NewAlternatorLiveNodes(seeds).err
          /\ initialNodes = NewAlternatorLiveNodes(seeds).nodes
    /\ liveNodes = initialNodes
    /\ nextLiveNodeIdx = 0
    /\ updating = FALSE
    /\ nextUpdate = 0
    /\ idleUpdaterStarted = FALSE
    /\ ctxDone = FALSE
    /\ updateSignal = 0
    /\ tickC = FALSE /\ tickAt = 0
    /\ now = 1
    /\ thr = [t \in Threads |-> IF t \in Callers THEN Idle ELSE Free]
    /\ calls = 0 /\ js = JsLoaded /\ certFile = NoCertFile /\ certSource = NoCertSource /\ cursor = NoCursor /\ alternatorClient = NoAlternatorClient /\ httpClient = NoClient
    /\ nodes = <<>> /\ nextNodeIndex = 0 /\ mutex = 0 /\ ctxs = <<>> /\ rounds = 0
    /\ harness = FALSE /\ trace = NoTrace

\* the application's goroutines keep nothing between calls, so a call that starts while
\* no other is in progress is taken to be made by caller 1
CallerFor(c) == c = 1 \/ thr[1].pc # "idle"

CanCall(c) == c \in Callers /\ thr[c].pc = "idle" /\ CallerFor(c) /\ calls < MaxCalls

\* ------------------------------------------------- shared by both variants
\* nextNode: nodes := *aln.liveNodes.Load(), initialNodes when that is empty
nextNodeSnapshot(live, initial) == IF Len(live) = 0 THEN initial ELSE live

\* nextNode, first statement; live records that the snapshot is the list of this instant
nextNodeLoad(t) ==
    /\ thr[t].pc = "nn_load"
    /\ thr' = [thr EXCEPT ![t].pc = "nn_add",
                          ![t].snap = nextNodeSnapshot(liveNodes, initialNodes),
                          ![t].live = (nextNodeSnapshot(liveNodes, initialNodes) = liveNodes)]
    /\ UNCHANGED <<impl, cfg, options, certFile, certSource, cursor, alternatorClient, httpClient, js, muVars, harness, trace, alnVars, now, calls>>

\* a NextNode that fetches the list itself before it returns
AfterNextNodeFetches(op) == "ul_fetch"

\* NextNode returns its node; a refresh goes on to its HTTP request
AfterNextNode(op) ==
    CASE op = "NextNode" -> "nx_ret"
      [] op = "CheckSet" -> "ck_fetch"
      [] op = "CheckSupported" -> "cs_next"
      [] op = "CheckSupportedFake" -> "cs_fake"
      [] OTHER -> "ul_fetch"

\* nextNode, second statement: the atomic Add(1) and the indexing
nextNodeAdd(t) ==
    /\ thr[t].pc = "nn_add"
    /\ nextLiveNodeIdx' = nextLiveNodeIdx + 1
    /\ LET ok == nextNodeOK(thr[t].snap, nextLiveNodeIdx')
       IN thr' = [thr EXCEPT ![t].pc = IF ok THEN AfterNextNode(thr[t].op) ELSE "crashed",
                             ![t].idx = nextLiveNodeIdx',
                             ![t].adds = @ + 1,
                             ![t].ret = IF ok THEN Index(thr[t].snap, nextNodeSlot(thr[t].snap, nextLiveNodeIdx'))
                                        ELSE None]
    /\ UNCHANGED <<impl, cfg, options, certFile, certSource, cursor, alternatorClient, httpClient, js, muVars, harness, trace, liveNodes, initialNodes, updating, nextUpdate,
                   idleUpdaterStarted, ctxDone, updateSignal, tickC, tickAt, now, calls>>

\* a goroutine that ends without running its deferred function
AfterUpdateNoDefer(op) == "up_done"

AfterUpdate(op) ==
    CASE op = "bg" -> "bg_defer"
      [] op = "UpdateOnce" -> "uo_clear"
      [] OTHER -> "up_done"

\* a store that only looks at the error
updateLiveNodesAcceptsEmpty(res) == ~res.err

\* updateLiveNodes: the list is stored only when the fetch gave a non-empty one
updateLiveNodesAccepts(res) == ~res.err /\ Len(res.uris) > 0

\* a query that names the rack and the datacenter even when they are not set
nextAsLocalNodesURLAlways(config) == <<<<"rack", config.Rack>>, <<"dc", config.Datacenter>>>>

\* nextAsLocalNodesURL: the query is rack=<Rack> and dc=<Datacenter>, each only when
\* set, joined by &; a query is the sequence of its key and value pairs
nextAsLocalNodesURL(config) ==
    (IF config.Rack # "" THEN <<<<"rack", config.Rack>>>> ELSE <<>>)
       \o (IF config.Datacenter # "" THEN <<<<"dc", config.Datacenter>>>> ELSE <<>>)

\* updateLiveNodes after nextNode: the HTTP exchange of getNodes ends with the answer r
\* and the list is stored or not; res keeps the answer until the thread's next step
updateLiveNodes(t) ==
    /\ thr[t].pc = "ul_fetch"
    /\ \E r \in Responses :
          LET res == getNodes(r)
          IN /\ liveNodes' = IF updateLiveNodesAccepts(res) THEN res.uris ELSE liveNodes
             /\ thr' = [thr EXCEPT ![t].pc = AfterUpdate(thr[t].op),
                                   ![t].res = r, ![t].snap = <<>>,
                                   ![t].reqs = <<[query |-> nextAsLocalNodesURL(cfg), resp |-> r]>>,
                                   ![t].ret = None, ![t].idx = 0]
    /\ UNCHANGED <<impl, cfg, options, certFile, certSource, cursor, alternatorClient, httpClient, js, muVars, harness, trace, initialNodes, nextLiveNodeIdx, updating, nextUpdate,
                   idleUpdaterStarted, ctxDone, updateSignal, tickC, tickAt, now, calls>>

\* a public call returns to its caller
Return(c) ==
    /\ c \in Callers
    /\ thr[c].pc \in {"nx_ret", "uo_ret", "st_ret", "ck_ret", "hc_ret", "hc_throw", "ps_ret", "ps_throw"}
    /\ thr' = [thr EXCEPT ![c] = Idle]
    /\ trace' = IF thr[c].pc = "nx_ret" THEN Collect(c) ELSE trace
    /\ UNCHANGED <<impl, cfg, options, certFile, certSource, cursor, alternatorClient, httpClient, js, muVars, alnVars, now, calls, harness>>

\* the wall clock, which only the AlternatorLiveNodes read, advances; a running ticker whose time has come puts a tick in t.C
\* (a tick that finds t.C full is dropped)
Tick(last) ==
    /\ impl \in {"flag", "idle"} /\ now < last
    /\ now' = now + 1
    /\ IF tickAt # 0 /\ tickAt <= now'
       THEN tickC' = TRUE /\ tickAt' = tickAt + cfg.IdleUpdatePeriod
       ELSE UNCHANGED <<tickC, tickAt>>
    /\ UNCHANGED <<impl, cfg, options, certFile, certSource, cursor, alternatorClient, httpClient, js, muVars, harness, trace, liveNodes, initialNodes, nextLiveNodeIdx,
                   updating, nextUpdate, idleUpdaterStarted, ctxDone, updateSignal, thr, calls>>

ClockTick == Tick(MaxTime)

\* a clock that runs one second longer, so that a schedule set at the first second
\* to the second one can become due again
MaxTimeLate == MaxTime + 1
ClockTickLate == Tick(MaxTimeLate)

\* ------------------------------------------------------------ flag variant
\* NextNode: nextUpdate := aln.nextUpdate.Load()
FlagNextNodeLoad(c) ==
    /\ impl = "flag" /\ CanCall(c)
    /\ thr' = [thr EXCEPT ![c] = [Idle EXCEPT !.pc = "nx_time", !.op = "NextNode",
                                              !.nu = nextUpdate]]
    /\ calls' = calls + 1
    /\ UNCHANGED <<impl, cfg, options, certFile, certSource, cursor, alternatorClient, httpClient, js, muVars, harness, trace, alnVars, now>>

\* NextNode: current := time.Now().UTC().Unix(); if nextUpdate < current
NextNodeDue(c) ==
    /\ thr[c].pc = "nx_time"
    /\ thr' = [thr EXCEPT ![c].nu = IF impl = "idle" /\ thr[c].nu < now THEN @ ELSE 0,
                          ![c].cur = IF impl = "idle" /\ thr[c].nu < now THEN now ELSE 0,
                          ![c].pc = IF thr[c].nu < now THEN "nx_cas" ELSE "nn_load"]
    /\ UNCHANGED <<impl, cfg, options, certFile, certSource, cursor, alternatorClient, httpClient, js, muVars, harness, trace, alnVars, now, calls>>

\* the goroutine launched after a plain test of the flag, whatever its value
FlagNextNodeNoCAS(c) ==
    /\ impl = "flag" /\ thr[c].pc = "nx_cas"
    /\ updating' = TRUE
    /\ \E g \in Goroutines : thr[g].pc = "free"
    /\ thr' = [thr EXCEPT ![c].pc = "nn_load",
                          ![FreeSlot] = [Idle EXCEPT !.pc = "nn_load", !.op = "bg"]]
    /\ UNCHANGED <<impl, cfg, options, certFile, certSource, cursor, alternatorClient, httpClient, js, muVars, harness, trace, liveNodes, initialNodes, nextLiveNodeIdx, nextUpdate,
                   idleUpdaterStarted, ctxDone, updateSignal, tickC, tickAt, now, calls>>

\* NextNode: the CompareAndSwap on updating and the go statement
FlagNextNodeCAS(c) ==
    /\ impl = "flag" /\ thr[c].pc = "nx_cas"
    /\ IF updating
       THEN /\ thr' = [thr EXCEPT ![c].pc = "nn_load"]
            /\ UNCHANGED updating
       ELSE /\ updating' = TRUE
            /\ \E g \in Goroutines : thr[g].pc = "free"
            /\ thr' = [thr EXCEPT ![c].pc = "nn_load",
                                  ![FreeSlot] = [Idle EXCEPT !.pc = "nn_load", !.op = "bg"]]
    /\ UNCHANGED <<impl, cfg, options, certFile, certSource, cursor, alternatorClient, httpClient, js, muVars, harness, trace, liveNodes, initialNodes, nextLiveNodeIdx, nextUpdate,
                   idleUpdaterStarted, ctxDone, updateSignal, tickC, tickAt, now, calls>>

\* the goroutine's deferred function, first statement: nextUpdate.Store
FlagDeferNextUpdate(g) ==
    /\ thr[g].pc = "bg_defer"
    /\ nextUpdate' = now + cfg.UpdatePeriod
    /\ thr' = [thr EXCEPT ![g].pc = "bg_clear", ![g].res = NoResp, ![g].reqs = <<>>]
    /\ UNCHANGED <<impl, cfg, options, certFile, certSource, cursor, alternatorClient, httpClient, js, muVars, harness, trace, liveNodes, initialNodes, nextLiveNodeIdx, updating,
                   idleUpdaterStarted, ctxDone, updateSignal, tickC, tickAt, now, calls>>

\* the goroutine's deferred function, second statement: updating.Store(false)
FlagDeferClear(g) ==
    /\ thr[g].pc = "bg_clear"
    /\ updating' = FALSE
    /\ thr' = [thr EXCEPT ![g] = Free]
    /\ UNCHANGED <<impl, cfg, options, certFile, certSource, cursor, alternatorClient, httpClient, js, muVars, harness, trace, liveNodes, initialNodes, nextLiveNodeIdx, nextUpdate,
                   idleUpdaterStarted, ctxDone, updateSignal, tickC, tickAt, now, calls>>

\* UpdateOnce: the CompareAndSwap; false is returned when the flag is taken
UpdateOnceCAS(c) ==
    /\ impl = "flag" /\ CanCall(c)
    /\ IF updating
       THEN /\ thr' = [thr EXCEPT ![c] = [Idle EXCEPT !.pc = "uo_ret", !.op = "UpdateOnceDone",
                                                      !.ret = FALSE]]
            /\ UNCHANGED updating
       ELSE /\ updating' = TRUE
            /\ thr' = [thr EXCEPT ![c] = [Idle EXCEPT !.pc = "nn_load", !.op = "UpdateOnce"]]
    /\ calls' = calls + 1
    /\ UNCHANGED <<impl, cfg, options, certFile, certSource, cursor, alternatorClient, httpClient, js, muVars, harness, trace, liveNodes, initialNodes, nextLiveNodeIdx, nextUpdate,
                   idleUpdaterStarted, ctxDone, updateSignal, tickC, tickAt, now>>

\* UpdateOnce: aln.updating.Store(false); return true
UpdateOnceClear(c) ==
    /\ thr[c].pc = "uo_clear"
    /\ updating' = FALSE
    /\ thr' = [thr EXCEPT ![c].pc = "uo_ret", ![c].op = "UpdateOnceDone", ![c].ret = TRUE,
                          ![c].res = NoResp, ![c].reqs = <<>>]
    /\ UNCHANGED <<impl, cfg, options, certFile, certSource, cursor, alternatorClient, httpClient, js, muVars, harness, trace, liveNodes, initialNodes, nextLiveNodeIdx, nextUpdate,
                   idleUpdaterStarted, ctxDone, updateSignal, tickC, tickAt, now, calls>>

\* ------------------------------------------- the checks of rack and datacenter
\* a check that asks the node whatever the configuration is
checkSkipsNever(config) == FALSE

\* CheckIfRackAndDatacenterSetCorrectly: nothing to check without rack and datacenter
checkSkips(config) == config.Rack = "" /\ config.Datacenter = ""

\* CheckIfRackAndDatacenterSetCorrectly up to the call of nextAsLocalNodesURL
CheckIfRackAndDatacenterSetCorrectly(c) ==
    /\ impl = "flag" /\ CanCall(c)
    /\ thr' = [thr EXCEPT ![c] = IF checkSkips(cfg)
                                 THEN [Idle EXCEPT !.op = "CheckSet", !.pc = "ck_ret", !.ret = "nil"]
                                 ELSE [Idle EXCEPT !.op = "CheckSet", !.pc = "nn_load"]]
    /\ calls' = calls + 1
    /\ UNCHANGED <<impl, cfg, options, certFile, certSource, cursor, alternatorClient, httpClient, js, muVars, harness, trace, alnVars, now>>

\* CheckIfRackAndDatacenterSetCorrectly: getNodes ends with the answer r; an error
\* of getNodes and an empty list both give an error
CheckSetFetch(c) ==
    /\ thr[c].pc = "ck_fetch"
    /\ \E r \in Responses :
          LET res == getNodes(r)
          IN thr' = [thr EXCEPT ![c].pc = "ck_ret", ![c].snap = <<>>, ![c].idx = 0,
                                ![c].reqs = Append(@, [query |-> nextAsLocalNodesURL(cfg), resp |-> r]),
                                ![c].ret = IF res.err \/ Len(res.uris) = 0 THEN "error" ELSE "nil"]
    /\ UNCHANGED <<impl, cfg, options, certFile, certSource, cursor, alternatorClient, httpClient, js, muVars, harness, trace, alnVars, now, calls>>

\* the query of the probe request
fakeRackQuery == <<<<"rack", "fakeRack">>>>

\* a comparison of the two lists that calls equal sizes a difference
supportedWhenEqual(withFake, without) == Len(withFake) = Len(without)

\* CheckIfRackDatacenterFeatureIsSupported: len(hostsWithFakeRack) != len(hostsWithoutRack)
supported(withFake, without) == Len(withFake) # Len(without)

\* CheckIfRackDatacenterFeatureIsSupported: baseURI := aln.nextAsURLWithPath(...)
CheckIfRackDatacenterFeatureIsSupported(c) ==
    /\ impl = "flag" /\ CanCall(c)
    /\ thr' = [thr EXCEPT ![c] = [Idle EXCEPT !.op = "CheckSupported", !.pc = "nn_load"]]
    /\ calls' = calls + 1
    /\ UNCHANGED <<impl, cfg, options, certFile, certSource, cursor, alternatorClient, httpClient, js, muVars, harness, trace, alnVars, now>>

\* fakeRackURI := aln.nextAsURLWithPath(...), a second call of nextNode; uris keeps
\* the nodes of baseURI and of fakeRackURI
CheckSupportedNext(c) ==
    /\ thr[c].pc = "cs_next"
    /\ thr' = [thr EXCEPT ![c].op = "CheckSupportedFake", ![c].pc = "nn_load",
                          ![c].uris = <<thr[c].ret>>]
    /\ UNCHANGED <<impl, cfg, options, certFile, certSource, cursor, alternatorClient, httpClient, js, muVars, harness, trace, alnVars, now, calls>>

\* getNodes(fakeRackURI): its error is returned at once
CheckSupportedFetchFake(c) ==
    /\ thr[c].pc = "cs_fake"
    /\ \E r \in Responses :
          thr' = [thr EXCEPT ![c].pc = IF getNodes(r).err THEN "ck_ret" ELSE "cs_base",
                             ![c].snap = <<>>, ![c].idx = 0,
                             ![c].uris = Append(@, thr[c].ret),
                             ![c].reqs = Append(@, [query |-> fakeRackQuery, resp |-> r]),
                             ![c].ret = IF getNodes(r).err THEN "error" ELSE None]
    /\ UNCHANGED <<impl, cfg, options, certFile, certSource, cursor, alternatorClient, httpClient, js, muVars, harness, trace, alnVars, now, calls>>

\* getNodes(baseURI), the test for an empty list and the comparison of the lengths
CheckSupportedFetchBase(c) ==
    /\ thr[c].pc = "cs_base"
    /\ \E r \in Responses :
          LET hostsWithFakeRack == getNodes(thr[c].reqs[1].resp).uris
              res == getNodes(r)
          IN thr' = [thr EXCEPT ![c].pc = "ck_ret", ![c].uris = <<>>,
                                ![c].reqs = Append(@, [query |-> <<>>, resp |-> r]),
                                ![c].ret = IF res.err \/ Len(res.uris) = 0 THEN "error"
                                           ELSE IF supported(hostsWithFakeRack, res.uris) THEN "true"
                                           ELSE "false"]
    /\ UNCHANGED <<impl, cfg, options, certFile, certSource, cursor, alternatorClient, httpClient, js, muVars, harness, trace, alnVars, now, calls>>

\* ------------------------------------------------------------ idle variant
\* the goroutine startIdleUpdater launches, waiting in its select
Updater == [Idle EXCEPT !.pc = "select", !.op = "idleUpd"]

\* a startIdleUpdater that launches without looking at idleUpdaterStarted
startIdleUpdaterLaunchesAlways == cfg.IdleUpdatePeriod # 0

\* startIdleUpdater: nothing when IdleUpdatePeriod is 0, else one CompareAndSwap
\* on idleUpdaterStarted decides whether the updater goroutine is launched
startIdleUpdaterLaunches == cfg.IdleUpdatePeriod # 0 /\ ~idleUpdaterStarted

\* startIdleUpdater run by a caller whose own move gives base
startIdleUpdater(base) ==
    IF startIdleUpdaterLaunches
    THEN /\ \E g \in Goroutines : thr[g].pc = "free"
         /\ idleUpdaterStarted' = TRUE
         /\ tickAt' = now + cfg.IdleUpdatePeriod
         /\ thr' = [base EXCEPT ![FreeSlot] = Updater]
    ELSE /\ idleUpdaterStarted' = idleUpdaterStarted
         /\ tickAt' = tickAt
         /\ thr' = base

\* a cancel that closes the Done channel on every call: closing a closed channel panics
cancelFuncCloses(done) == [panics |-> done, done |-> TRUE]

\* context.CancelFunc: the first call cancels the context, later calls do nothing
cancelFunc(done) == [panics |-> FALSE, done |-> TRUE]

\* Start()
Start(c) ==
    /\ impl = "idle" /\ CanCall(c)
    /\ startIdleUpdater(thr)
    /\ calls' = calls + 1
    /\ UNCHANGED <<impl, cfg, options, certFile, certSource, cursor, alternatorClient, httpClient, js, muVars, harness, trace, liveNodes, initialNodes, nextLiveNodeIdx, updating, nextUpdate,
                   ctxDone, updateSignal, tickC, now>>

\* Stop(): stopFn is set by the constructor, so it is never nil here
Stop(c) ==
    /\ impl = "idle" /\ CanCall(c)
    /\ ctxDone' = cancelFunc(ctxDone).done
    /\ thr' = [thr EXCEPT ![c] = [Idle EXCEPT !.op = "Stop",
                                              !.pc = IF cancelFunc(ctxDone).panics THEN "crashed"
                                                     ELSE "st_ret"]]
    /\ calls' = calls + 1
    /\ UNCHANGED <<impl, cfg, options, certFile, certSource, cursor, alternatorClient, httpClient, js, muVars, harness, trace, liveNodes, initialNodes, nextLiveNodeIdx, updating, nextUpdate,
                   idleUpdaterStarted, updateSignal, tickC, tickAt, now>>

\* NextNode: aln.startIdleUpdater()
IdleNextNodeBegin(c) ==
    /\ impl = "idle" /\ CanCall(c)
    /\ startIdleUpdater([thr EXCEPT ![c] = [Idle EXCEPT !.pc = "nx_loadNU", !.op = "NextNode"]])
    /\ calls' = calls + 1
    /\ UNCHANGED <<impl, cfg, options, certFile, certSource, cursor, alternatorClient, httpClient, js, muVars, harness, trace, liveNodes, initialNodes, nextLiveNodeIdx, updating, nextUpdate,
                   ctxDone, updateSignal, tickC, now>>

\* NextNode: nextUpdate := aln.nextUpdate.Load()
IdleNextNodeLoad(c) ==
    /\ thr[c].pc = "nx_loadNU"
    /\ thr' = [thr EXCEPT ![c].pc = "nx_time", ![c].nu = nextUpdate]
    /\ UNCHANGED <<impl, cfg, options, certFile, certSource, cursor, alternatorClient, httpClient, js, muVars, harness, trace, alnVars, now, calls>>

\* NextNode: aln.nextUpdate.CompareAndSwap(nextUpdate, current+period)
IdleNextNodeCAS(c) ==
    /\ impl = "idle" /\ thr[c].pc = "nx_cas"
    /\ IF nextUpdate = thr[c].nu
       THEN /\ nextUpdate' = thr[c].cur + cfg.UpdatePeriod
            /\ thr' = [thr EXCEPT ![c].pc = "nx_send", ![c].nu = 0, ![c].cur = 0]
       ELSE /\ nextUpdate' = nextUpdate
            /\ thr' = [thr EXCEPT ![c].pc = "nn_load", ![c].nu = 0, ![c].cur = 0]
    /\ UNCHANGED <<impl, cfg, options, certFile, certSource, cursor, alternatorClient, httpClient, js, muVars, harness, trace, liveNodes, initialNodes, nextLiveNodeIdx, updating,
                   idleUpdaterStarted, ctxDone, updateSignal, tickC, tickAt, now, calls>>

\* NextNode: select { case aln.updateSignal <- struct{}{}: default: }
IdleNextNodeSignal(c) ==
    /\ thr[c].pc = "nx_send"
    /\ updateSignal' = 1
    /\ thr' = [thr EXCEPT ![c].pc = "nn_load"]
    /\ UNCHANGED <<impl, cfg, options, certFile, certSource, cursor, alternatorClient, httpClient, js, muVars, harness, trace, liveNodes, initialNodes, nextLiveNodeIdx, updating, nextUpdate,
                   idleUpdaterStarted, ctxDone, tickC, tickAt, now, calls>>

\* the updater's select takes case <-aln.ctx.Done(): return (and the deferred t.Stop())
UpdaterDone(g) ==
    /\ thr[g].pc = "select" /\ ctxDone
    /\ thr' = [thr EXCEPT ![g] = Free]
    /\ tickC' = FALSE /\ tickAt' = 0
    /\ UNCHANGED <<impl, cfg, options, certFile, certSource, cursor, alternatorClient, httpClient, js, muVars, harness, trace, liveNodes, initialNodes, nextLiveNodeIdx, updating, nextUpdate,
                   idleUpdaterStarted, ctxDone, updateSignal, now, calls>>

\* the updater's select takes case <-t.C
UpdaterTick(g) ==
    /\ thr[g].pc = "select" /\ tickC
    /\ tickC' = FALSE
    /\ thr' = [thr EXCEPT ![g].pc = "up_tick"]
    /\ UNCHANGED <<impl, cfg, options, certFile, certSource, cursor, alternatorClient, httpClient, js, muVars, harness, trace, liveNodes, initialNodes, nextLiveNodeIdx, updating, nextUpdate,
                   idleUpdaterStarted, ctxDone, updateSignal, tickAt, now, calls>>

\* case <-t.C: aln.nextUpdate.Store(now + period), then updateLiveNodes
UpdaterTickStore(g) ==
    /\ thr[g].pc = "up_tick"
    /\ nextUpdate' = now + cfg.UpdatePeriod
    /\ thr' = [thr EXCEPT ![g].pc = "nn_load"]
    /\ UNCHANGED <<impl, cfg, options, certFile, certSource, cursor, alternatorClient, httpClient, js, muVars, harness, trace, liveNodes, initialNodes, nextLiveNodeIdx, updating,
                   idleUpdaterStarted, ctxDone, updateSignal, tickC, tickAt, now, calls>>

\* the updater's select takes case <-aln.updateSignal, then updateLiveNodes
UpdaterSignal(g) ==
    /\ thr[g].pc = "select" /\ updateSignal > 0
    /\ updateSignal' = updateSignal - 1
    /\ thr' = [thr EXCEPT ![g].pc = "nn_load"]
    /\ UNCHANGED <<impl, cfg, options, certFile, certSource, cursor, alternatorClient, httpClient, js, muVars, harness, trace, liveNodes, initialNodes, nextLiveNodeIdx, updating, nextUpdate,
                   idleUpdaterStarted, ctxDone, tickC, tickAt, now, calls>>

\* the updater's for loop comes round to its select again
UpdaterLoop(g) ==
    /\ thr[g].pc = "up_done"
    /\ thr' = [thr EXCEPT ![g].pc = "select", ![g].res = NoResp, ![g].reqs = <<>>]
    /\ UNCHANGED <<impl, cfg, options, certFile, certSource, cursor, alternatorClient, httpClient, js, muVars, harness, trace, alnVars, now, calls>>

\* ---------------------------------------------------------- mutex variants
EmptyHost == -1         \* the empty string as a hostname
GarbageHost == -2       \* a piece of a body that is not a list of hostnames

\* sort.Strings
sortStrings(hosts) == SortSeq(hosts, LAMBDA a, b : a < b)

\* doUpdateNodes of go-v2: json.Unmarshal and the sort; the status code is not looked at
doUpdateNodesParse(resp) ==
    IF resp.kind = "neterr" \/ resp.kind = "badjson"
    THEN [err |-> TRUE, uris |-> <<>>, emptyArray |-> FALSE]
    ELSE [err |-> FALSE, uris |-> sortStrings(resp.hosts), emptyArray |-> resp.hosts = <<>>]

\* update_thread of the legacy file: strings.Trim(body, "[]"), strings.Split on ",",
\* strings.Trim of the quotes, and the sort; splitting the empty string gives [""]
updateThreadParse(resp) ==
    IF resp.kind = "neterr" THEN [err |-> TRUE, uris |-> <<>>, emptyArray |-> FALSE]
    ELSE IF resp.kind = "badjson" THEN [err |-> FALSE, uris |-> <<GarbageHost>>, emptyArray |-> FALSE]
    ELSE IF resp.hosts = <<>> THEN [err |-> FALSE, uris |-> <<EmptyHost>>, emptyArray |-> TRUE]
    ELSE [err |-> FALSE, uris |-> sortStrings(resp.hosts), emptyArray |-> FALSE]

\* NewAlternatorNodes
InitialNodeLists == {<<1>>, <<1, 2>>}

\* a panic ends the process: nothing runs afterwards
Alive == \A t \in Threads : thr[t].pc # "crashed"

\* n.ctx.Done() is closed
ctxIsDone == Len(ctxs) > 0 /\ ctxs[Len(ctxs)]

InitMutex ==
    /\ impl \in {"mutex", "legacy"}
    /\ cfg = NewALNConfig /\ options = NoOptions
    /\ initialNodes = <<>> /\ liveNodes = <<>> /\ nextLiveNodeIdx = 0
    /\ updating = FALSE /\ nextUpdate = 0 /\ idleUpdaterStarted = FALSE
    /\ ctxDone = FALSE /\ updateSignal = 0 /\ tickC = FALSE /\ tickAt = 0
    /\ now = 1
    /\ nodes \in InitialNodeLists
    /\ nextNodeIndex = 0
    /\ mutex = 0
    /\ ctxs = <<>>
    /\ rounds = 0
    \* the legacy constructor launches update_thread itself
    /\ thr = [t \in Threads |->
                IF t \in Callers THEN Idle
                ELSE IF impl = "legacy" /\ t = 11 THEN [Idle EXCEPT !.pc = "mu_loop", !.op = "update"]
                ELSE Free]
    /\ calls = 0 /\ js = JsLoaded /\ certFile = NoCertFile /\ certSource = NoCertSource /\ cursor = NoCursor /\ alternatorClient = NoAlternatorClient /\ httpClient = NoClient
    /\ harness = FALSE /\ trace = NoTrace

\* Start: a new context replaces n.ctx and n.cancelFunc; go n.updateNodes()
MuStart(c) ==
    /\ impl = "mutex" /\ CanCall(c) /\ Alive
    /\ \E g \in Goroutines : thr[g].pc = "free"
    /\ ctxs' = Append(ctxs, FALSE)
    /\ thr' = [thr EXCEPT ![FreeSlot] = [Idle EXCEPT !.pc = "mu_loop", !.op = "update"]]
    /\ calls' = calls + 1
    /\ UNCHANGED <<impl, cfg, options, certFile, certSource, cursor, alternatorClient, httpClient, js, alnVars, now, nodes, nextNodeIndex, mutex, rounds, harness, trace>>

\* Stop: n.cancelFunc(); calling the nil function of an unstarted directory panics
MuStop(c) ==
    /\ impl = "mutex" /\ CanCall(c) /\ Alive
    /\ IF Len(ctxs) = 0
       THEN /\ thr' = [thr EXCEPT ![c] = [Idle EXCEPT !.op = "Stop", !.pc = "crashed"]]
            /\ ctxs' = ctxs
       ELSE /\ ctxs' = [ctxs EXCEPT ![Len(ctxs)] = cancelFunc(@).done]
            /\ thr' = [thr EXCEPT ![c] = [Idle EXCEPT !.op = "Stop",
                                                      !.pc = IF cancelFunc(ctxs[Len(ctxs)]).panics
                                                             THEN "crashed" ELSE "st_ret"]]
    /\ calls' = calls + 1
    /\ UNCHANGED <<impl, cfg, options, certFile, certSource, cursor, alternatorClient, httpClient, js, alnVars, now, nodes, nextNodeIndex, mutex, rounds, harness, trace>>

\* a request of the application reaches the middleware, which calls pickNode
PickNodeCall(c) ==
    /\ impl \in {"mutex", "legacy"} /\ CanCall(c) /\ Alive
    /\ thr' = [thr EXCEPT ![c] = [Idle EXCEPT !.pc = "pn_lock", !.op = "pickNode"]]
    /\ calls' = calls + 1
    /\ UNCHANGED <<impl, cfg, options, certFile, certSource, cursor, alternatorClient, httpClient, js, alnVars, muVars, now, harness, trace>>

\* a lock that excludes no one
mutexNeverHeld(m) == TRUE

\* sync.Mutex: Lock returns once no one holds the mutex
mutexIsFree(m) == m = 0

\* pickNode: n.mutex.Lock()
pickNodeLock(t) ==
    /\ thr[t].pc = "pn_lock" /\ Alive
    /\ mutexIsFree(mutex)
    /\ mutex' = t
    /\ thr' = [thr EXCEPT ![t].pc = "pn_read"]
    /\ UNCHANGED <<impl, cfg, options, certFile, certSource, cursor, alternatorClient, httpClient, js, alnVars, now, calls, nodes, nextNodeIndex, ctxs, rounds, harness, trace>>

\* pickNode: ret := n.nodes[n.nextNodeIndex]
pickNodeRead(t) ==
    /\ thr[t].pc = "pn_read" /\ Alive
    /\ LET ok == InRange(nodes, nextNodeIndex)
       IN thr' = [thr EXCEPT ![t].ret = IF ok THEN Index(nodes, nextNodeIndex) ELSE None,
                             ![t].idx = nextNodeIndex,
                             ![t].pc = IF ok THEN "pn_incr" ELSE "crashed"]
    /\ UNCHANGED <<impl, cfg, options, certFile, certSource, cursor, alternatorClient, httpClient, js, alnVars, muVars, now, calls, harness, trace>>

\* the wrap one position early
pickNodeAdvanceEarly(index, len) == IF index + 1 >= len - 1 THEN 0 ELSE index + 1

\* n.nextNodeIndex++ and the wrap to 0
pickNodeAdvance(index, len) == IF index + 1 = len THEN 0 ELSE index + 1

\* pickNode: the increment, the wrap and n.mutex.Unlock()
pickNodeIncr(t) ==
    /\ thr[t].pc = "pn_incr" /\ Alive
    /\ nextNodeIndex' = pickNodeAdvance(nextNodeIndex, Len(nodes))
    /\ mutex' = IF mutex = t THEN 0 ELSE mutex
    /\ thr' = [thr EXCEPT ![t].pc = IF thr[t].op = "pickNode" THEN "nx_ret" ELSE "mu_fetch",
                          ![t].req = IF thr[t].op = "pickNode" THEN 0 ELSE Len(ctxs)]
    /\ UNCHANGED <<impl, cfg, options, certFile, certSource, cursor, alternatorClient, httpClient, js, alnVars, now, calls, nodes, ctxs, rounds, harness, trace>>

\* a select that always falls to its default case
selectDefault(done) == FALSE

\* select { case <-n.ctx.Done(): ...; default: ... }: the default case runs only
\* when Done is not ready
selectDone(done) == done

\* updateNodes of go-v2: the select at the head of the loop
updateNodesLoop(g) ==
    /\ impl = "mutex" /\ thr[g].pc = "mu_loop" /\ Alive
    /\ IF selectDone(ctxIsDone)
       THEN /\ thr' = [thr EXCEPT ![g] = Free]
            /\ rounds' = rounds
       ELSE /\ rounds < MaxRounds
            /\ thr' = [thr EXCEPT ![g].pc = "pn_lock"]
            /\ rounds' = rounds + 1
    /\ UNCHANGED <<impl, cfg, options, certFile, certSource, cursor, alternatorClient, httpClient, js, alnVars, now, calls, nodes, nextNodeIndex, mutex, ctxs, harness, trace>>

\* update_thread of the legacy file: the head of its endless loop
updateThreadLoop(g) ==
    /\ impl = "legacy" /\ thr[g].pc = "mu_loop" /\ Alive
    /\ rounds < MaxRounds
    /\ thr' = [thr EXCEPT ![g].pc = "pn_lock"]
    /\ rounds' = rounds + 1
    /\ UNCHANGED <<impl, cfg, options, certFile, certSource, cursor, alternatorClient, httpClient, js, alnVars, now, calls, nodes, nextNodeIndex, mutex, ctxs, harness, trace>>

AfterFetch(res) == IF res.err THEN "mu_loop" ELSE "mu_lock"

\* doUpdateNodes: the request to the picked node, the body, Unmarshal, sort;
\* an error is returned to the loop, which sleeps and starts over
doUpdateNodesFetch(g) ==
    /\ impl = "mutex" /\ thr[g].pc = "mu_fetch" /\ Alive
    /\ \E r \in Responses :
          LET res == doUpdateNodesParse(r)
          IN thr' = [thr EXCEPT ![g].pc = AfterFetch(res), ![g].ret = None, ![g].idx = 0,
                                ![g].req = 0,
                                ![g].reqs = IF res.err THEN <<>> ELSE <<[query |-> <<>>, resp |-> r]>>,
                                ![g].res = IF res.err THEN NoResp ELSE res]
    /\ UNCHANGED <<impl, cfg, options, certFile, certSource, cursor, alternatorClient, httpClient, js, alnVars, muVars, now, calls, harness, trace>>

\* update_thread: http.Get, the body, the split into hostnames, sort
updateThreadFetch(g) ==
    /\ impl = "legacy" /\ thr[g].pc = "mu_fetch" /\ Alive
    /\ \E r \in Responses :
          LET res == updateThreadParse(r)
          IN thr' = [thr EXCEPT ![g].pc = AfterFetch(res), ![g].ret = None, ![g].idx = 0,
                                ![g].req = 0,
                                ![g].reqs = IF res.err THEN <<>> ELSE <<[query |-> <<>>, resp |-> r]>>,
                                ![g].res = IF res.err THEN NoResp ELSE res]
    /\ UNCHANGED <<impl, cfg, options, certFile, certSource, cursor, alternatorClient, httpClient, js, alnVars, muVars, now, calls, harness, trace>>

\* the update takes the mutex
updateLock(g) ==
    /\ thr[g].pc = "mu_lock" /\ Alive
    /\ mutexIsFree(mutex)
    /\ mutex' = g
    /\ thr' = [thr EXCEPT ![g].pc = "mu_store"]
    /\ UNCHANGED <<impl, cfg, options, certFile, certSource, cursor, alternatorClient, httpClient, js, alnVars, now, calls, nodes, nextNodeIndex, ctxs, rounds, harness, trace>>

\* an update that leaves the index where it was
resetIndexNever(index, len) == index

\* if n.nextNodeIndex >= len(n.nodes) { n.nextNodeIndex = 0 }
resetIndex(index, len) == IF index >= len THEN 0 ELSE index

\* n.nodes = fetchedNodes; the index goes to 0 when it is past the end; Unlock; Sleep
\* (idx keeps the index the comparison read)
updateStore(g) ==
    /\ thr[g].pc = "mu_store" /\ Alive
    /\ nodes' = thr[g].res.uris
    /\ nextNodeIndex' = resetIndex(nextNodeIndex, Len(nodes'))
    /\ mutex' = IF mutex = g THEN 0 ELSE mutex
    /\ thr' = [thr EXCEPT ![g].pc = "mu_loop", ![g].res = NoResp, ![g].reqs = <<>>,
                          ![g].idx = nextNodeIndex]
    /\ UNCHANGED <<impl, cfg, options, certFile, certSource, cursor, alternatorClient, httpClient, js, alnVars, now, calls, ctxs, rounds, harness, trace>>

\* ------------------------------------------------------------ Alternator.js
Localhost == 127        \* the address '127.0.0.1'

\* host === '127.0.0.1' || host === 'localhost' || host.startsWith('127.')
isLocal(host) == host = Localhost

\* what init may be given as initialHosts; given is FALSE for a missing argument
JsInitialHosts ==
    {[given |-> FALSE, hosts |-> <<>>], [given |-> TRUE, hosts |-> <<>>],
     [given |-> TRUE, hosts |-> <<Localhost>>], [given |-> TRUE, hosts |-> <<1, 2>>]}

\* updateHosts, the end of a response: JSON.parse and the test of the payload;
\* the status code is not looked at and the entries are taken as they come
updateHostsPayload(resp, hosts) ==
    IF resp.kind = "neterr" \/ resp.kind = "badjson" THEN hosts
    ELSE IF Len(resp.hosts) > 0 THEN resp.hosts ELSE hosts

InitJs ==
    /\ impl = "js"
    /\ js = JsLoaded /\ certFile = NoCertFile /\ certSource = NoCertSource /\ cursor = NoCursor /\ alternatorClient = NoAlternatorClient /\ httpClient = NoClient
    /\ cfg = NewALNConfig /\ options = NoOptions
    /\ initialNodes = <<>> /\ liveNodes = <<>> /\ nextLiveNodeIdx = 0
    /\ updating = FALSE /\ nextUpdate = 0 /\ idleUpdaterStarted = FALSE
    /\ ctxDone = FALSE /\ updateSignal = 0 /\ tickC = FALSE /\ tickAt = 0
    /\ now = 1
    /\ nodes = <<>> /\ nextNodeIndex = 0 /\ mutex = 0 /\ ctxs = <<>> /\ rounds = 0
    /\ thr = [t \in Threads |-> IF t \in Callers THEN Idle ELSE Free]
    /\ calls = 0
    /\ harness = FALSE /\ trace = NoTrace

\* exports.init: the copy of initialHosts, hostIdx = 0, the test for local hosts,
\* done = false, and updateHosts() up to its request when updates are enabled
JsInit ==
    /\ impl = "js" /\ calls < MaxCalls
    /\ \E in \in JsInitialHosts :
          LET h == IF in.given THEN in.hosts ELSE <<Localhost>>
              enable == ~(\A i \in 1..Len(h) : isLocal(h[i]))
          IN js' = [js EXCEPT !.hosts = h, !.hostIdx = 0, !.done = FALSE,
                              !.enableBackgroundUpdates = enable,
                              !.fetching = IF enable THEN @ + 1 ELSE @]
    /\ calls' = calls + 1
    /\ UNCHANGED <<impl, cfg, options, certFile, certSource, cursor, alternatorClient, httpClient, alnVars, muVars, now, thr, harness, trace>>

\* exports.done
JsDone ==
    /\ impl = "js" /\ calls < MaxCalls
    /\ js' = [js EXCEPT !.done = TRUE, !.dones = IF @ < 2 THEN @ + 1 ELSE @]
    /\ calls' = calls + 1
    /\ UNCHANGED <<impl, cfg, options, certFile, certSource, cursor, alternatorClient, httpClient, alnVars, muVars, now, thr, harness, trace>>

\* options.lookup for FAKE_HOST: the fallback without hosts, else the host at
\* hostIdx % hosts.length and the cursor's advance
JsLookup ==
    /\ impl = "js" /\ calls < MaxCalls
    /\ js' = IF Len(js.hosts) = 0 THEN js
             ELSE [js EXCEPT !.hostIdx = (js.hostIdx + 1) % Len(js.hosts)]
    /\ calls' = calls + 1
    /\ UNCHANGED <<impl, cfg, options, certFile, certSource, cursor, alternatorClient, httpClient, alnVars, muVars, now, thr, harness, trace>>

\* updateHosts: the request of a chain ends (answer, error or timeout); the chain
\* goes to sleep for a second
JsResponse ==
    /\ impl = "js" /\ js.fetching > 0
    /\ \E r \in Responses :
          js' = [js EXCEPT !.hosts = updateHostsPayload(r, js.hosts),
                           !.fetching = @ - 1, !.sleeping = @ + 1]
    /\ UNCHANGED <<impl, cfg, options, certFile, certSource, cursor, alternatorClient, httpClient, alnVars, muVars, now, thr, calls, harness, trace>>

\* updateHosts called again after the sleep: it returns when done is set or the
\* updates are disabled, else it sends the next request
JsWake ==
    /\ impl = "js" /\ js.sleeping > 0
    /\ IF js.done \/ ~js.enableBackgroundUpdates
       THEN /\ js' = [js EXCEPT !.sleeping = @ - 1]
            /\ rounds' = rounds
       ELSE /\ rounds < MaxRounds
            /\ js' = [js EXCEPT !.sleeping = @ - 1, !.fetching = @ + 1]
            /\ rounds' = rounds + 1
    /\ UNCHANGED <<impl, cfg, options, certFile, certSource, cursor, alternatorClient, httpClient, alnVars, now, thr, calls, nodes, nextNodeIndex, mutex, ctxs, harness, trace>>

NextJs ==
    \/ JsInit
    \/ JsDone
    \/ JsLookup
    \/ JsResponse
    \/ JsWake

\* Alternator.js
SpecJs == InitJs /\ [][NextJs]_vars

\* ------------------------------------------- Java and C# AlternatorLiveNodes
\* text is a sequence of characters; q stands for the double quote
RECURSIVE trimLeft(_)
trimLeft(s) == IF s # <<>> /\ Head(s) = " " THEN trimLeft(Tail(s)) ELSE s

RECURSIVE trimRight(_)
trimRight(s) ==
    IF s # <<>> /\ s[Len(s)] = " " THEN trimRight(SubSeq(s, 1, Len(s) - 1)) ELSE s

\* String.trim of Java, String.Trim of C#
trim(s) == trimLeft(trimRight(s))

\* String.substring(begin, end) of Java: StringIndexOutOfBoundsException unless
\* 0 <= begin <= end <= length
substring(s, begin, end) ==
    IF begin >= 0 /\ begin <= end /\ end <= Len(s)
    THEN [ok |-> TRUE, val |-> SubSeq(s, begin + 1, end)]
    ELSE [ok |-> FALSE, val |-> <<>>]

\* String.Substring(start, length) of C#: ArgumentOutOfRangeException unless
\* start >= 0, length >= 0 and start + length <= Length
Substring(s, start, length) ==
    IF start >= 0 /\ length >= 0 /\ start + length <= Len(s)
    THEN [ok |-> TRUE, val |-> SubSeq(s, start + 1, start + length)]
    ELSE [ok |-> FALSE, val |-> <<>>]

RECURSIVE splitFrom(_, _)
\* the pieces of s between commas, cur being the piece under way
splitFrom(s, cur) ==
    IF s = <<>> THEN <<cur>>
    ELSE IF Head(s) = "," THEN <<cur>> \o splitFrom(Tail(s), <<>>)
    ELSE splitFrom(Tail(s), Append(cur, Head(s)))

\* split(",") of Java and Split(',') of C#; the empty pieces, which is all they
\* differ in, are skipped by both callers
split(s) == splitFrom(s, <<>>)

\* hostToURI of Java, HostToUri of C#: the address, or the URISyntaxException
\* (UriFormatException) of a host that is empty or holds a character no hostname has
hostToURI(host) ==
    IF host # <<>> /\ \A i \in 1..Len(host) : host[i] \in {"a", "b"}
    THEN [err |-> FALSE, url |-> <<defaultScheme, host, defaultPort>>]
    ELSE [err |-> TRUE, url |-> None]

RECURSIVE javaHosts(_)
\* the loop of getNodes over the pieces: fatal is the unchecked exception of substring
javaHosts(list) ==
    IF list = <<>> THEN [fatal |-> FALSE, nodes |-> <<>>]
    ELSE IF Head(list) = <<>> THEN javaHosts(Tail(list))
    ELSE LET host == trim(Head(list))
             cut == substring(host, 1, Len(host) - 1)
             rest == javaHosts(Tail(list))
         IN IF ~cut.ok THEN [fatal |-> TRUE, nodes |-> <<>>]
            ELSE IF hostToURI(cut.val).err THEN rest
            ELSE [fatal |-> rest.fatal, nodes |-> <<hostToURI(cut.val).url>> \o rest.nodes]

RECURSIVE csharpHosts(_)
\* the loop of GetNodes: host.Trim().Substring(1, host.Length - 2), the length being
\* that of the piece before the trim
csharpHosts(list) ==
    IF list = <<>> THEN [fatal |-> FALSE, nodes |-> <<>>]
    ELSE IF Head(list) = <<>> THEN csharpHosts(Tail(list))
    ELSE LET cut == Substring(trim(Head(list)), 1, Len(Head(list)) - 2)
             rest == csharpHosts(Tail(list))
         IN IF ~cut.ok THEN [fatal |-> TRUE, nodes |-> <<>>]
            ELSE IF hostToURI(cut.val).err THEN rest
            ELSE [fatal |-> rest.fatal, nodes |-> <<hostToURI(cut.val).url>> \o rest.nodes]

\* getNodes of Java: io is the IOException of httpClient.execute, fatal an unchecked
\* exception; a status other than 200 gives the empty list
javaGetNodes(resp) ==
    IF resp.kind = "neterr" THEN [kind |-> "io", nodes |-> <<>>]
    ELSE IF resp.status # 200 THEN [kind |-> "list", nodes |-> <<>>]
    ELSE LET response == trim(resp.body)
             cut == substring(response, 1, Len(response) - 1)
         IN IF ~cut.ok THEN [kind |-> "fatal", nodes |-> <<>>]
            ELSE IF javaHosts(split(cut.val)).fatal THEN [kind |-> "fatal", nodes |-> <<>>]
            ELSE [kind |-> "list", nodes |-> javaHosts(split(cut.val)).nodes]

\* GetNodes of C#: client.GetAsync(uri).Result throws an AggregateException, which
\* is no IOException, when the request fails
GetNodes(resp) ==
    IF resp.kind = "neterr" THEN [kind |-> "fatal", nodes |-> <<>>]
    ELSE IF resp.status < 200 \/ resp.status > 299 THEN [kind |-> "list", nodes |-> <<>>]
    ELSE LET responseBody == trim(resp.body)
             cut == Substring(responseBody, 1, Len(responseBody) - 2)
         IN IF ~cut.ok THEN [kind |-> "fatal", nodes |-> <<>>]
            ELSE IF csharpHosts(split(cut.val)).fatal THEN [kind |-> "fatal", nodes |-> <<>>]
            ELSE [kind |-> "list", nodes |-> csharpHosts(split(cut.val)).nodes]

\* bodies a node may send: nothing, [], ["a"], ["a","b"], ["a", "b"], [a], ab
Bodies ==
    {<<>>, <<"[", "]">>, <<"[", "q", "a", "q", "]">>,
     <<"[", "q", "a", "q", ",", "q", "b", "q", "]">>,
     <<"[", "q", "a", "q", ",", " ", "q", "b", "q", "]">>,
     <<"[", "a", "]">>, <<"a", "b">>}

TextResponses ==
    {[kind |-> "neterr", status |-> 0, body |-> <<>>],
     [kind |-> "http", status |-> 500, body |-> <<"[", "q", "a", "q", "]">>]}
    \cup {[kind |-> "http", status |-> 200, body |-> b] : b \in Bodies}

\* the constructors: the seed list, which must not be empty, becomes the live list
InitJava ==
    /\ impl \in {"java", "csharp"}
    /\ js = JsLoaded /\ certFile = NoCertFile /\ certSource = NoCertSource /\ cursor = NoCursor /\ alternatorClient = NoAlternatorClient /\ httpClient = NoClient
    /\ cfg = NewALNConfig /\ options = NoOptions
    /\ initialNodes \in {<<hostToURI(<<"b">>).url>>, <<hostToURI(<<"a">>).url, hostToURI(<<"b">>).url>>}
    /\ liveNodes = initialNodes /\ nextLiveNodeIdx = 0
    /\ updating = FALSE /\ nextUpdate = 0 /\ idleUpdaterStarted = FALSE
    /\ ctxDone = FALSE /\ updateSignal = 0 /\ tickC = FALSE /\ tickAt = 0
    /\ now = 1
    /\ nodes = <<>> /\ nextNodeIndex = 0 /\ mutex = 0 /\ ctxs = <<>> /\ rounds = 0
    /\ thr = [t \in Threads |-> IF t \in Callers THEN Idle ELSE Free]
    /\ calls = 0
    /\ harness = FALSE /\ trace = NoTrace

\* start() of Java (running.compareAndSet) and Start of C# (_started): the refresh
\* thread is launched once
JavaStart(c) ==
    /\ impl \in {"java", "csharp"} /\ CanCall(c)
    /\ IF updating
       THEN UNCHANGED <<updating, thr>>
       ELSE /\ updating' = TRUE
            /\ thr' = [thr EXCEPT ![FreeSlot] = [Idle EXCEPT !.pc = "run_loop", !.op = "run"]]
    /\ calls' = calls + 1
    /\ UNCHANGED <<impl, cfg, options, certFile, certSource, cursor, alternatorClient, httpClient, js, muVars, harness, trace, liveNodes, initialNodes, nextLiveNodeIdx, nextUpdate,
                   idleUpdaterStarted, ctxDone, updateSignal, tickC, tickAt, now>>

\* Thread.interrupt() of Java, the cancellation of the token given to Start in C#
JavaInterrupt(c) ==
    /\ impl \in {"java", "csharp"} /\ CanCall(c)
    /\ ctxDone' = TRUE
    /\ calls' = calls + 1
    /\ UNCHANGED <<impl, cfg, options, certFile, certSource, cursor, alternatorClient, httpClient, js, muVars, harness, trace, liveNodes, initialNodes, nextLiveNodeIdx, updating, nextUpdate,
                   idleUpdaterStarted, updateSignal, tickC, tickAt, now, thr>>

\* run / UpdateCycle: the head of the loop (C# tests the token there), then
\* nextAsLocalNodesURI takes the node at the cursor and advances it
runLoop(g) ==
    /\ impl \in {"java", "csharp"} /\ thr[g].pc = "run_loop"
    /\ IF impl = "csharp" /\ ctxDone
       THEN /\ thr' = [thr EXCEPT ![g].pc = "stopped"]
            /\ UNCHANGED <<nextLiveNodeIdx, rounds>>
       ELSE /\ rounds < MaxRounds
            /\ rounds' = rounds + 1
            /\ nextLiveNodeIdx' = nextLiveNodeIdx + 1
            /\ thr' = [thr EXCEPT ![g].pc = "run_fetch", ![g].res = NoResp]
    /\ UNCHANGED <<impl, cfg, options, certFile, certSource, cursor, alternatorClient, httpClient, js, harness, trace, liveNodes, initialNodes, updating, nextUpdate,
                   idleUpdaterStarted, ctxDone, updateSignal, tickC, tickAt, now, calls,
                   nodes, nextNodeIndex, mutex, ctxs>>

\* updateLiveNodes / UpdateLiveNodes: the request ends with resp; an IOException is
\* caught by the loop, any other exception leaves run and ends the thread
runUpdateLiveNodes(g) ==
    /\ impl \in {"java", "csharp"} /\ thr[g].pc = "run_fetch"
    /\ \E resp \in TextResponses :
          LET got == IF impl = "java" THEN javaGetNodes(resp) ELSE GetNodes(resp)
          IN /\ liveNodes' = IF got.kind = "list" /\ got.nodes # <<>> THEN got.nodes ELSE liveNodes
             /\ thr' = [thr EXCEPT ![g].pc = IF got.kind = "fatal" THEN "died" ELSE "run_sleep",
                                   ![g].res = resp]
    /\ UNCHANGED <<impl, cfg, options, certFile, certSource, cursor, alternatorClient, httpClient, js, muVars, harness, trace, initialNodes, nextLiveNodeIdx, updating, nextUpdate,
                   idleUpdaterStarted, ctxDone, updateSignal, tickC, tickAt, now, calls>>

\* Thread.sleep: an interrupted Java thread returns from run
runSleep(g) ==
    /\ impl \in {"java", "csharp"} /\ thr[g].pc = "run_sleep"
    /\ thr' = [thr EXCEPT ![g].pc = IF impl = "java" /\ ctxDone THEN "stopped" ELSE "run_loop"]
    /\ UNCHANGED <<impl, cfg, options, certFile, certSource, cursor, alternatorClient, httpClient, js, muVars, harness, trace, alnVars, now, calls>>

NextJava ==
    \/ \E c \in Callers : JavaStart(c)
    \/ \E c \in Callers : JavaInterrupt(c)
    \/ \E g \in Goroutines : runLoop(g)
    \/ \E g \in Goroutines : runUpdateLiveNodes(g)
    \/ \E g \in Goroutines : runSleep(g)

\* the AlternatorLiveNodes of Java and of C#
SpecJava == InitJava /\ [][NextJava]_vars

\* --------------------------------------------- Java AlternatorHttpClient
\* the body of updateHosts' try block over the pieces: every piece, the empty one too,
\* is trimmed and cut; fatal is the unchecked exception of substring
RECURSIVE httpHosts(_)
httpHosts(list) ==
    IF list = <<>> THEN [fatal |-> FALSE, hosts |-> <<>>]
    ELSE LET host == trim(Head(list))
             cut == substring(host, 1, Len(host) - 1)
             rest == httpHosts(Tail(list))
         IN IF ~cut.ok THEN [fatal |-> TRUE, hosts |-> <<>>]
            ELSE [fatal |-> rest.fatal, hosts |-> <<cut.val>> \o rest.hosts]

\* newHosts of updateHosts: the IOException of call() is caught and leaves it empty,
\* the status is not looked at, a body without content reads as []
newHosts(resp) ==
    IF resp.kind = "neterr" THEN [kind |-> "io", hosts |-> <<>>]
    ELSE LET hosts_string == trim(IF resp.body = <<>> THEN <<"[", "]">> ELSE resp.body)
             cut == substring(hosts_string, 1, Len(hosts_string) - 1)
         IN IF ~cut.ok THEN [kind |-> "fatal", hosts |-> <<>>]
            ELSE IF httpHosts(split(cut.val)).fatal THEN [kind |-> "fatal", hosts |-> <<>>]
            ELSE [kind |-> "list", hosts |-> httpHosts(split(cut.val)).hosts]

\* the constructor: hosts = [host], one updateHosts() on the constructing thread,
\* then the update thread is started
InitHttp ==
    /\ impl = "http"
    /\ js = JsLoaded /\ certFile = NoCertFile /\ certSource = NoCertSource /\ cursor = NoCursor /\ alternatorClient = NoAlternatorClient
    /\ \E resp \in TextResponses :
          /\ newHosts(resp).kind # "fatal"
          /\ httpClient = [hosts |-> IF newHosts(resp).hosts # <<>> THEN newHosts(resp).hosts
                                      ELSE << <<"a">> >>,
                           hostIdx |-> 0, closed |-> FALSE]
    /\ cfg = NewALNConfig /\ options = NoOptions
    /\ initialNodes = <<>> /\ liveNodes = <<>> /\ nextLiveNodeIdx = 0
    /\ updating = FALSE /\ nextUpdate = 0 /\ idleUpdaterStarted = FALSE
    /\ ctxDone = FALSE /\ updateSignal = 0 /\ tickC = FALSE /\ tickAt = 0
    /\ now = 1
    /\ nodes = <<>> /\ nextNodeIndex = 0 /\ mutex = 0 /\ ctxs = <<>> /\ rounds = 0
    /\ thr = [t \in Threads |-> IF t \in Callers THEN Idle
                                ELSE IF t = 11 THEN [Idle EXCEPT !.pc = "hc_loop", !.op = "UpdateThread"]
                                ELSE Free]
    /\ calls = 0
    /\ harness = FALSE /\ trace = NoTrace

\* prepareRequest: the application sends a request, which asks nextHost for its host
prepareRequest(c) ==
    /\ impl = "http" /\ CanCall(c)
    /\ thr' = [thr EXCEPT ![c] = [Idle EXCEPT !.pc = "nh_hosts", !.op = "prepareRequest"]]
    /\ calls' = calls + 1
    /\ UNCHANGED <<impl, cfg, options, certFile, certSource, cursor, alternatorClient, httpClient, js, muVars, alnVars, now, harness, trace>>

\* nextHost, hosts.get(hostIdx): the volatile read of hosts
nextHostHosts(c) ==
    /\ impl = "http" /\ thr[c].pc = "nh_hosts"
    /\ thr' = [thr EXCEPT ![c].snap = httpClient.hosts, ![c].pc = "nh_get"]
    /\ UNCHANGED <<impl, cfg, options, certFile, certSource, cursor, alternatorClient, httpClient, js, muVars, alnVars, now, calls, harness, trace>>

\* nextHost, hosts.get(hostIdx): the volatile read of hostIdx, then get, which throws
\* IndexOutOfBoundsException to the caller of prepareRequest
nextHostGet(c) ==
    /\ impl = "http" /\ thr[c].pc = "nh_get"
    /\ thr' = [thr EXCEPT ![c].idx = httpClient.hostIdx,
                          ![c].ret = IF InRange(thr[c].snap, httpClient.hostIdx)
                                     THEN Index(thr[c].snap, httpClient.hostIdx) ELSE None,
                          ![c].pc = IF InRange(thr[c].snap, httpClient.hostIdx)
                                    THEN "nh_idx" ELSE "hc_throw"]
    /\ UNCHANGED <<impl, cfg, options, certFile, certSource, cursor, alternatorClient, httpClient, js, muVars, alnVars, now, calls, harness, trace>>

\* nextHost, (hostIdx + 1) % hosts.size(): the volatile read of hostIdx
nextHostIdx(c) ==
    /\ impl = "http" /\ thr[c].pc = "nh_idx"
    /\ thr' = [thr EXCEPT ![c].cur = httpClient.hostIdx, ![c].pc = "nh_size"]
    /\ UNCHANGED <<impl, cfg, options, certFile, certSource, cursor, alternatorClient, httpClient, js, muVars, alnVars, now, calls, harness, trace>>

\* nextHost, (hostIdx + 1) % hosts.size(): the volatile read of hosts
nextHostSize(c) ==
    /\ impl = "http" /\ thr[c].pc = "nh_size"
    /\ thr' = [thr EXCEPT ![c].nu = (thr[c].cur + 1) % Len(httpClient.hosts), ![c].pc = "nh_store"]
    /\ UNCHANGED <<impl, cfg, options, certFile, certSource, cursor, alternatorClient, httpClient, js, muVars, alnVars, now, calls, harness, trace>>

\* nextHost, hostIdx = ...: the volatile write
nextHostStore(c) ==
    /\ impl = "http" /\ thr[c].pc = "nh_store"
    /\ httpClient' = [httpClient EXCEPT !.hostIdx = thr[c].nu]
    /\ thr' = [thr EXCEPT ![c].pc = "hc_ret"]
    /\ UNCHANGED <<impl, cfg, options, certFile, certSource, cursor, alternatorClient, js, muVars, alnVars, now, calls, harness, trace>>

\* close: closed = true, then updateThread.join()
close(c) ==
    /\ impl = "http" /\ CanCall(c)
    /\ httpClient' = [httpClient EXCEPT !.closed = TRUE]
    /\ thr' = [thr EXCEPT ![c] = [Idle EXCEPT !.pc = "hc_join", !.op = "close"]]
    /\ calls' = calls + 1
    /\ UNCHANGED <<impl, cfg, options, certFile, certSource, cursor, alternatorClient, js, muVars, alnVars, now, harness, trace>>

\* updateThread.join() returns when the update thread has ended
closeJoin(c) ==
    /\ impl = "http" /\ thr[c].pc = "hc_join"
    /\ thr[11].pc \in {"stopped", "died"}
    /\ thr' = [thr EXCEPT ![c].pc = "hc_ret"]
    /\ UNCHANGED <<impl, cfg, options, certFile, certSource, cursor, alternatorClient, httpClient, js, muVars, alnVars, now, calls, harness, trace>>

\* UpdateThread.run: the test of owner.isClosed() and the sleep of one second
UpdateThreadRun(g) ==
    /\ impl = "http" /\ thr[g].pc = "hc_loop"
    /\ IF httpClient.closed
       THEN /\ thr' = [thr EXCEPT ![g].pc = "stopped"]
            /\ UNCHANGED rounds
       ELSE /\ rounds < MaxRounds
            /\ rounds' = rounds + 1
            /\ thr' = [thr EXCEPT ![g].pc = "uh_host"]
    /\ UNCHANGED <<impl, cfg, options, certFile, certSource, cursor, alternatorClient, httpClient, js, alnVars, now, calls, harness, trace,
                   nodes, nextNodeIndex, mutex, ctxs>>

\* updateHosts, hosts.get(0): the node the request goes to
updateHostsHost(g) ==
    /\ impl = "http" /\ thr[g].pc = "uh_host"
    /\ thr' = [thr EXCEPT ![g].ret = httpClient.hosts[1], ![g].pc = "uh_call"]
    /\ UNCHANGED <<impl, cfg, options, certFile, certSource, cursor, alternatorClient, httpClient, js, muVars, alnVars, now, calls, harness, trace>>

\* updateHosts, the exchange and the parsing: an unchecked exception leaves run and
\* ends the thread; an empty newHosts leaves the fields alone
updateHostsCall(g) ==
    /\ impl = "http" /\ thr[g].pc = "uh_call"
    /\ \E resp \in TextResponses :
          thr' = [thr EXCEPT ![g].snap = newHosts(resp).hosts,
                             ![g].pc = IF newHosts(resp).kind = "fatal" THEN "died"
                                       ELSE IF newHosts(resp).hosts = <<>> THEN "hc_loop"
                                       ELSE "uh_idx"]
    /\ UNCHANGED <<impl, cfg, options, certFile, certSource, cursor, alternatorClient, httpClient, js, muVars, alnVars, now, calls, harness, trace>>

\* updateHosts, this.hostIdx = 0
updateHostsIdx(g) ==
    /\ impl = "http" /\ thr[g].pc = "uh_idx"
    /\ httpClient' = [httpClient EXCEPT !.hostIdx = 0]
    /\ thr' = [thr EXCEPT ![g].pc = "uh_hosts"]
    /\ UNCHANGED <<impl, cfg, options, certFile, certSource, cursor, alternatorClient, js, muVars, alnVars, now, calls, harness, trace>>

\* updateHosts, this.hosts = newHosts
updateHostsHosts(g) ==
    /\ impl = "http" /\ thr[g].pc = "uh_hosts"
    /\ httpClient' = [httpClient EXCEPT !.hosts = thr[g].snap]
    /\ thr' = [thr EXCEPT ![g].pc = "hc_loop", ![g].snap = <<>>]
    /\ UNCHANGED <<impl, cfg, options, certFile, certSource, cursor, alternatorClient, js, muVars, alnVars, now, calls, harness, trace>>

NextHttp ==
    \/ \E c \in Callers : prepareRequest(c)
    \/ \E c \in Callers : nextHostHosts(c)
    \/ \E c \in Callers : nextHostGet(c)
    \/ \E c \in Callers : nextHostIdx(c)
    \/ \E c \in Callers : nextHostSize(c)
    \/ \E c \in Callers : nextHostStore(c)
    \/ \E c \in Callers : close(c)
    \/ \E c \in Callers : closeJoin(c)
    \/ \E c \in Callers : Return(c)
    \/ \E g \in Goroutines : UpdateThreadRun(g)
    \/ \E g \in Goroutines : updateHostsHost(g)
    \/ \E g \in Goroutines : updateHostsCall(g)
    \/ \E g \in Goroutines : updateHostsIdx(g)
    \/ \E g \in Goroutines : updateHostsHosts(g)

\* the AlternatorHttpClient of Java
SpecHttp == InitHttp /\ [][NextHttp]_vars

\* ------------------------------------------------------- the test harness
\* the NodeSet the harness runs against
HarnessNodes == IF impl \in {"mutex", "legacy"} THEN nodes ELSE liveNodes

\* a NodeSet of k distinct addresses, a cursor left anywhere by earlier calls, no updater
InitHarness ==
    /\ impl \in {"flag", "idle", "mutex"}
    /\ cfg = NewALNConfig /\ options = NoOptions
    /\ \E k \in 1..MaxNodes :
          /\ initialNodes = IF impl = "mutex" THEN <<>>
                            ELSE NewAlternatorLiveNodes([i \in 1..k |-> i]).nodes
          /\ nodes = IF impl = "mutex" THEN [i \in 1..k |-> i] ELSE <<>>
          /\ nextLiveNodeIdx \in IF impl = "mutex" THEN {0} ELSE 0..(k - 1)
          /\ nextNodeIndex \in IF impl = "mutex" THEN 0..(k - 1) ELSE {0}
    /\ liveNodes = initialNodes
    /\ updating = FALSE /\ nextUpdate = 0 /\ idleUpdaterStarted = FALSE
    /\ ctxDone = FALSE /\ updateSignal = 0 /\ tickC = FALSE /\ tickAt = 0
    /\ now = 1
    /\ mutex = 0 /\ ctxs = <<>> /\ rounds = 0
    /\ thr = [t \in Threads |-> IF t \in Callers THEN Idle ELSE Free]
    /\ calls = 0 /\ js = JsLoaded /\ certFile = NoCertFile /\ certSource = NoCertSource /\ cursor = NoCursor /\ alternatorClient = NoAlternatorClient /\ httpClient = NoClient
    /\ harness = TRUE /\ trace = NoTrace

\* the harness has a caller enter nextNode (pickNode in the mutex variant)
HarnessCall(c) ==
    /\ harness /\ c \in Callers /\ thr[c].pc = "idle"
    /\ calls < FairRounds * Len(HarnessNodes)
    /\ thr' = [thr EXCEPT ![c] = IF impl = "mutex"
                                 THEN [Idle EXCEPT !.pc = "pn_lock", !.op = "pickNode"]
                                 ELSE [Idle EXCEPT !.pc = "nn_load", !.op = "NextNode"]]
    /\ calls' = calls + 1
    /\ UNCHANGED <<impl, cfg, options, certFile, certSource, cursor, alternatorClient, httpClient, js, alnVars, muVars, now, harness, trace>>

NextHarness ==
    \/ \E c \in Callers : HarnessCall(c)
    \/ \E t \in Threads : nextNodeLoad(t)
    \/ \E t \in Threads : nextNodeAdd(t)
    \/ \E t \in Threads : pickNodeLock(t)
    \/ \E t \in Threads : pickNodeRead(t)
    \/ \E t \in Threads : pickNodeIncr(t)
    \/ \E c \in Callers : Return(c)

SpecHarness == InitHarness /\ [][NextHarness]_vars

\* the values WithRack and WithDatacenter are called with ("" when not called)
Racks == {"", "r1"}
Datacenters == {"", "dc1"}

\* WithALNRack and WithALNDatacenter of the package common
WithALNRack(config, rack) == [config EXCEPT !.Rack = rack]
WithALNDatacenter(config, datacenter) == [config EXCEPT !.Datacenter = datacenter]

\* WithRack of the package alternator_live_nodes, whose function body is empty
WithRack(config, rack) == config

\* WithDatacenter of the package alternator_live_nodes
WithDatacenter(config, datacenter) == [config EXCEPT !.Datacenter = datacenter]

\* NewAlternatorLB of go/v1: Config.ToALNConfig passes WithRack and WithDatacenter
\* for the values that are set, and NewAlternatorLiveNodes applies them
ToALNConfig(opts) ==
    LET racked == IF opts.Rack # "" THEN WithRack(NewALNConfig, opts.Rack) ELSE NewALNConfig
    IN IF opts.Datacenter # "" THEN WithDatacenter(racked, opts.Datacenter) ELSE racked

\* NewAlternatorLiveNodes of the package common with the same two options
commonConfig(opts) ==
    LET racked == IF opts.Rack # "" THEN WithALNRack(NewALNConfig, opts.Rack) ELSE NewALNConfig
    IN IF opts.Datacenter # "" THEN WithALNDatacenter(racked, opts.Datacenter) ELSE racked

\* a flag-variant directory built with any rack and datacenter, through go/v1 or
\* straight from the package common
InitCheck ==
    /\ impl = "flag"
    /\ options \in [Rack : Racks, Datacenter : Datacenters]
    /\ cfg \in {ToALNConfig(options), commonConfig(options)}
    /\ \E seeds \in SeedInputs :
          /\ ~NewAlternatorLiveNodes(seeds).err
          /\ initialNodes = NewAlternatorLiveNodes(seeds).nodes
    /\ liveNodes = initialNodes /\ nextLiveNodeIdx = 0
    /\ updating = FALSE /\ nextUpdate = 0 /\ idleUpdaterStarted = FALSE
    /\ ctxDone = FALSE /\ updateSignal = 0 /\ tickC = FALSE /\ tickAt = 0
    /\ now = 1
    /\ thr = [t \in Threads |-> IF t \in Callers THEN Idle ELSE Free]
    /\ calls = 0 /\ js = JsLoaded /\ certFile = NoCertFile /\ certSource = NoCertSource /\ cursor = NoCursor /\ alternatorClient = NoAlternatorClient /\ httpClient = NoClient
    /\ nodes = <<>> /\ nextNodeIndex = 0 /\ mutex = 0 /\ ctxs = <<>> /\ rounds = 0
    /\ harness = FALSE /\ trace = NoTrace

NextCheck ==
    \/ \E c \in Callers : CheckIfRackAndDatacenterSetCorrectly(c)
    \/ \E c \in Callers : CheckSetFetch(c)
    \/ \E c \in Callers : CheckIfRackDatacenterFeatureIsSupported(c)
    \/ \E c \in Callers : CheckSupportedNext(c)
    \/ \E c \in Callers : CheckSupportedFetchFake(c)
    \/ \E c \in Callers : CheckSupportedFetchBase(c)
    \/ \E c \in Callers : UpdateOnceCAS(c)
    \/ \E c \in Callers : UpdateOnceClear(c)
    \/ \E t \in Threads : nextNodeLoad(t)
    \/ \E t \in Threads : nextNodeAdd(t)
    \/ \E t \in Threads : updateLiveNodes(t)
    \/ \E c \in Callers : Return(c)

\* the two checks and UpdateOnce of the flag variant, under every configuration of
\* rack and datacenter
SpecCheck == InitCheck /\ [][NextCheck]_vars

\* a session patched by PatchSession: its Send handler calls NextNode for every
\* request, and trace holds the nodes the requests were sent to, in order
InitSession ==
    /\ impl = "flag"
    /\ cfg = NewALNConfig /\ options = NoOptions
    /\ \E seeds \in SeedInputs :
          /\ ~NewAlternatorLiveNodes(seeds).err
          /\ initialNodes = NewAlternatorLiveNodes(seeds).nodes
    /\ liveNodes = initialNodes
    /\ nextLiveNodeIdx \in 0..(Len(initialNodes) - 1)
    /\ updating = FALSE /\ nextUpdate \in {0, MaxTime} /\ idleUpdaterStarted = FALSE
    /\ ctxDone = FALSE /\ updateSignal = 0 /\ tickC = FALSE /\ tickAt = 0
    /\ now = 1
    /\ thr = [t \in Threads |-> IF t \in Callers THEN Idle ELSE Free]
    /\ calls = 0 /\ js = JsLoaded /\ certFile = NoCertFile /\ certSource = NoCertSource /\ cursor = NoCursor /\ alternatorClient = NoAlternatorClient /\ httpClient = NoClient
    /\ nodes = <<>> /\ nextNodeIndex = 0 /\ mutex = 0 /\ ctxs = <<>> /\ rounds = 0
    /\ harness = TRUE /\ trace = NoTrace

NextSession ==
    \/ \E c \in Callers : FlagNextNodeLoad(c)
    \/ \E c \in Callers : NextNodeDue(c)
    \/ \E c \in Callers : FlagNextNodeCAS(c)
    \/ \E t \in Threads : nextNodeLoad(t)
    \/ \E t \in Threads : nextNodeAdd(t)
    \/ \E t \in Threads : updateLiveNodes(t)
    \/ \E g \in Goroutines : FlagDeferNextUpdate(g)
    \/ \E g \in Goroutines : FlagDeferClear(g)
    \/ \E c \in Callers : Return(c)

\* the requests of a patched session and the refreshes they set off
SpecSession == InitSession /\ [][NextSession]_vars

\* the application is about to call NewAlternatorLiveNodes(seeds): no directory yet
InitNew ==
    /\ impl \in {"flag", "idle"}
    /\ cfg \in {[NewALNConfig EXCEPT !.IdleUpdatePeriod = p] : p \in IF impl = "idle" THEN {0, 1} ELSE {0}}
    /\ options = NoOptions
    /\ initialNodes = <<>> /\ liveNodes = <<>> /\ nextLiveNodeIdx = 0
    /\ updating = FALSE /\ nextUpdate = 0 /\ idleUpdaterStarted = FALSE
    /\ ctxDone = FALSE /\ updateSignal = 0 /\ tickC = FALSE /\ tickAt = 0
    /\ now = 1
    /\ \E seeds \in SeedInputs :
          thr = [t \in Threads |-> IF t = 1 THEN [Idle EXCEPT !.pc = "new", !.op = "New", !.snap = seeds]
                                   ELSE Free]
    /\ calls = 0 /\ js = JsLoaded /\ certFile = NoCertFile /\ certSource = NoCertSource /\ cursor = NoCursor /\ alternatorClient = NoAlternatorClient /\ httpClient = NoClient
    /\ nodes = <<>> /\ nextNodeIndex = 0 /\ mutex = 0 /\ ctxs = <<>> /\ rounds = 0
    /\ harness = FALSE /\ trace = NoTrace

\* NewAlternatorLiveNodes(seeds): an error and no directory, or the directory with
\* both lists set, which the callers may use from then on
New(c) ==
    /\ thr[c].pc = "new"
    /\ LET out == NewAlternatorLiveNodes(thr[c].snap)
       IN IF out.err
          THEN /\ thr' = [thr EXCEPT ![c].pc = "new_err", ![c].ret = "error"]
               /\ UNCHANGED <<initialNodes, liveNodes>>
          ELSE /\ initialNodes' = out.nodes
               /\ liveNodes' = out.nodes
               /\ thr' = [t \in Threads |-> IF t \in Callers THEN Idle ELSE Free]
    /\ UNCHANGED <<impl, cfg, options, certFile, certSource, cursor, alternatorClient, httpClient, js, muVars, harness, trace, nextLiveNodeIdx, updating, nextUpdate,
                   idleUpdaterStarted, ctxDone, updateSignal, tickC, tickAt, now, calls>>

NextNew ==
    \/ \E c \in Callers : New(c)
    \/ \E c \in Callers : FlagNextNodeLoad(c)
    \/ \E c \in Callers : IdleNextNodeBegin(c)
    \/ \E c \in Callers : IdleNextNodeLoad(c)
    \/ \E c \in Callers : NextNodeDue(c)
    \/ \E c \in Callers : FlagNextNodeCAS(c)
    \/ \E c \in Callers : IdleNextNodeCAS(c)
    \/ \E c \in Callers : IdleNextNodeSignal(c)
    \/ \E t \in Threads : nextNodeLoad(t)
    \/ \E t \in Threads : nextNodeAdd(t)
    \/ \E t \in Threads : updateLiveNodes(t)
    \/ \E g \in Goroutines : FlagDeferNextUpdate(g)
    \/ \E g \in Goroutines : FlagDeferClear(g)
    \/ \E g \in Goroutines : UpdaterSignal(g)
    \/ \E g \in Goroutines : UpdaterLoop(g)
    \/ \E c \in Callers : Return(c)

\* the constructor and the calls of NextNode that follow it
SpecNew == InitNew /\ [][NextNew]_vars

\* ------------------------------------------------- C++ AlternatorClient
\* an Aws::Http::URI is [host, path]; the protocol and the port are the same in all
localnodes == "/localnodes"
control_addr == 1

\* FetchLocalNodes, the body of a response: the strings of a JSON list, each as
\* _protocol + "://" + element + ":" + _port; the status code is not looked at and
\* any other body gives no nodes
cppNodes(resp) ==
    IF resp.kind = "neterr" \/ resp.kind = "badjson" THEN <<>>
    ELSE [i \in 1..Len(resp.hosts) |-> [host |-> resp.hosts[i], path |-> ""]]

\* the constructor has pushed control_addr with the path /localnodes and is about
\* to run its FetchLocalNodes(); no member is usable before it returns
InitCpp ==
    /\ impl = "cpp"
    /\ js = JsLoaded /\ certFile = NoCertFile /\ certSource = NoCertSource /\ cursor = NoCursor /\ httpClient = NoClient
    /\ alternatorClient = [NoAlternatorClient EXCEPT
                              !.nodes = <<[host |-> control_addr, path |-> localnodes]>>]
    /\ cfg = NewALNConfig /\ options = NoOptions
    /\ initialNodes = <<>> /\ liveNodes = <<>> /\ nextLiveNodeIdx = 0
    /\ updating = FALSE /\ nextUpdate = 0 /\ idleUpdaterStarted = FALSE
    /\ ctxDone = FALSE /\ updateSignal = 0 /\ tickC = FALSE /\ tickAt = 0
    /\ now = 1
    /\ nodes = <<>> /\ nextNodeIndex = 0 /\ mutex = 0 /\ ctxs = <<>> /\ rounds = 0
    /\ thr = [t \in Threads |-> IF t = 1 THEN [Idle EXCEPT !.pc = "fl_front", !.op = "AlternatorClient"]
                                ELSE IF t \in Callers THEN Idle ELSE Free]
    /\ calls = 0
    /\ harness = FALSE /\ trace = NoTrace

\* a member function can be called: the object is constructed and not destroyed
Usable(c) ==
    /\ impl = "cpp" /\ CanCall(c)
    /\ ~alternatorClient.destroyed
    /\ \A t \in Threads : thr[t].op # "AlternatorClient"

\* FetchLocalNodes: contact_node = _nodes.front(), under _nodes_mutex
FetchLocalNodesFront(t) ==
    /\ impl = "cpp" /\ thr[t].pc = "fl_front"
    /\ thr' = [thr EXCEPT ![t].reqs = <<alternatorClient.nodes[1]>>, ![t].pc = "fl_http"]
    /\ UNCHANGED <<impl, cfg, options, certFile, certSource, cursor, alternatorClient, httpClient, js, muVars, alnVars, now, calls, harness, trace>>

\* FetchLocalNodes: the GET of contact_node as it is, the parse of the body, and
\* under _nodes_mutex _nodes = nodes and _node_idx = 0 when nodes came; the
\* constructor returns, the updater goes to sleep
FetchLocalNodesGet(t) ==
    /\ impl = "cpp" /\ thr[t].pc = "fl_http"
    /\ \E resp \in Responses :
          alternatorClient' =
             IF cppNodes(resp) # <<>>
             THEN [alternatorClient EXCEPT !.nodes = cppNodes(resp), !.node_idx = 0]
             ELSE alternatorClient
    /\ thr' = [thr EXCEPT ![t] = IF t \in Callers THEN Idle
                                 ELSE [thr[t] EXCEPT !.pc = "nu_loop", !.reqs = <<>>]]
    /\ UNCHANGED <<impl, cfg, options, certFile, certSource, cursor, httpClient, js, muVars, alnVars, now, calls, harness, trace>>

\* BuildHttpRequest: NextNode() under _nodes_mutex: _nodes[_node_idx], and
\* _node_idx = (_node_idx + 1) % _nodes.size()
BuildHttpRequest(c) ==
    /\ Usable(c)
    /\ alternatorClient' = [alternatorClient EXCEPT
                               !.node_idx = (@ + 1) % Len(alternatorClient.nodes)]
    /\ thr' = [thr EXCEPT ![c] = [Idle EXCEPT !.pc = "hc_ret", !.op = "BuildHttpRequest",
                                              !.reqs = <<alternatorClient.nodes[alternatorClient.node_idx + 1]>>]]
    /\ calls' = calls + 1
    /\ UNCHANGED <<impl, cfg, options, certFile, certSource, cursor, httpClient, js, muVars, alnVars, now, harness, trace>>

\* StartNodeUpdater: _keep_updating = true and the thread (the README calls it
\* once, after the constructor)
StartNodeUpdater(c) ==
    /\ Usable(c) /\ ~alternatorClient.node_updater
    /\ alternatorClient' = [alternatorClient EXCEPT !.keep_updating = TRUE, !.node_updater = TRUE]
    /\ thr' = [thr EXCEPT ![11] = [Idle EXCEPT !.pc = "nu_loop", !.op = "node_updater"]]
    /\ calls' = calls + 1
    /\ UNCHANGED <<impl, cfg, options, certFile, certSource, cursor, httpClient, js, muVars, alnVars, now, harness, trace>>

\* the updater's while (_keep_updating): FetchLocalNodes() and the sleep
NodeUpdaterLoop(g) ==
    /\ impl = "cpp" /\ thr[g].pc = "nu_loop"
    /\ IF ~alternatorClient.keep_updating
       THEN /\ thr' = [thr EXCEPT ![g].pc = "stopped"]
            /\ UNCHANGED rounds
       ELSE /\ rounds < MaxRounds
            /\ rounds' = rounds + 1
            /\ thr' = [thr EXCEPT ![g].pc = "fl_front"]
    /\ UNCHANGED <<impl, cfg, options, certFile, certSource, cursor, alternatorClient, httpClient, js, alnVars, now, calls, harness, trace,
                   nodes, nextNodeIndex, mutex, ctxs>>

\* ~AlternatorClient, with no call in progress: _keep_updating = false
Destructor(c) ==
    /\ Usable(c) /\ \A d \in Callers : thr[d].pc = "idle"
    /\ alternatorClient' = [alternatorClient EXCEPT !.keep_updating = FALSE, !.destroyed = TRUE]
    /\ thr' = [thr EXCEPT ![c] = [Idle EXCEPT !.pc = "dt_join", !.op = "Destructor"]]
    /\ calls' = calls + 1
    /\ UNCHANGED <<impl, cfg, options, certFile, certSource, cursor, httpClient, js, muVars, alnVars, now, harness, trace>>

\* ~AlternatorClient: _node_updater->join() when there is an updater
DestructorJoin(c) ==
    /\ impl = "cpp" /\ thr[c].pc = "dt_join"
    /\ alternatorClient.node_updater => thr[11].pc = "stopped"
    /\ thr' = [thr EXCEPT ![c].pc = "hc_ret"]
    /\ UNCHANGED <<impl, cfg, options, certFile, certSource, cursor, alternatorClient, httpClient, js, muVars, alnVars, now, calls, harness, trace>>

NextCpp ==
    \/ \E t \in Threads : FetchLocalNodesFront(t)
    \/ \E t \in Threads : FetchLocalNodesGet(t)
    \/ \E c \in Callers : BuildHttpRequest(c)
    \/ \E c \in Callers : StartNodeUpdater(c)
    \/ \E g \in Goroutines : NodeUpdaterLoop(g)
    \/ \E c \in Callers : Destructor(c)
    \/ \E c \in Callers : DestructorJoin(c)
    \/ \E c \in Callers : Return(c)

\* the C++ AlternatorClient
SpecCpp == InitCpp /\ [][NextCpp]_vars

\* ------------------------------------------- the cursor at its full width
\* Java's int and C#'s int: 32 bits, two's complement
MaxInt32 == 2147483647
MinInt32 == -MaxInt32 - 1

\* Go's uint64 as four limbs of 16 bits, the lowest first
Limb == 65536
MaxUint64 == <<Limb - 1, Limb - 1, Limb - 1, Limb - 1>>

\* AtomicInteger.getAndIncrement, Interlocked.Increment: the sum wraps
incr32(x) == IF x = MaxInt32 THEN MinInt32 ELSE x + 1

\* the % of Java and C#: the remainder has the sign of the dividend
rem32(x, n) ==
    IF x >= 0 \/ x % n = 0 THEN x % n ELSE (x % n) - n

\* an index used without Math.abs
mathAbsNone(x) == x

\* Math.abs, Math.Abs: of the lowest int Java returns the lowest int and C# throws
\* OverflowException, and neither is an index
mathAbs(x) == IF x < 0 /\ x # MinInt32 THEN -x ELSE x

\* atomic.Uint64.Add(1): the carry runs through the limbs and the sum wraps to 0
RECURSIVE add64(_)
add64(v) ==
    IF v = <<>> THEN <<>>
    ELSE IF Head(v) = Limb - 1 THEN <<0>> \o add64(Tail(v))
    ELSE <<Head(v) + 1>> \o Tail(v)

\* v % uint64(n), from the highest limb down
RECURSIVE mod64(_, _)
mod64(v, n) ==
    IF v = <<>> THEN 0
    ELSE (mod64(Tail(v), n) * Limb + Head(v)) % n

\* counters near the ends of their ranges
Starts32 == {0, MaxInt32 - 1, MaxInt32, MinInt32, -2, -1}
Starts64 == {<<0, 0, 0, 0>>, <<Limb - 1, 0, 0, 0>>, <<Limb - 2, Limb - 1, Limb - 1, Limb - 1>>, MaxUint64}

\* a directory of K nodes whose counter has any of these values
InitCursor ==
    /\ impl \in {"flag", "java", "csharp"}
    /\ js = JsLoaded /\ certFile = NoCertFile /\ certSource = NoCertSource /\ httpClient = NoClient /\ alternatorClient = NoAlternatorClient
    /\ cursor \in [value : IF impl = "flag" THEN Starts64 ELSE Starts32, index : {0}]
    /\ cfg = NewALNConfig /\ options = NoOptions
    /\ \E K \in 1..MaxNodes : liveNodes = [i \in 1..K |-> urlParse(i).url]
    /\ initialNodes = liveNodes /\ nextLiveNodeIdx = 0
    /\ updating = FALSE /\ nextUpdate = 0 /\ idleUpdaterStarted = FALSE
    /\ ctxDone = FALSE /\ updateSignal = 0 /\ tickC = FALSE /\ tickAt = 0
    /\ now = 1
    /\ nodes = <<>> /\ nextNodeIndex = 0 /\ mutex = 0 /\ ctxs = <<>> /\ rounds = 0
    /\ thr = [t \in Threads |-> IF t \in Callers THEN Idle ELSE Free]
    /\ calls = 0
    /\ harness = FALSE /\ trace = NoTrace

\* Go nextNode: aln.nextLiveNodeIdx.Add(1) % uint64(len(nodes)), of the new value
nextNode ==
    /\ impl = "flag" /\ calls < MaxCalls
    /\ cursor' = [value |-> add64(cursor.value), index |-> mod64(add64(cursor.value), Len(liveNodes))]
    /\ calls' = calls + 1
    /\ UNCHANGED <<impl, cfg, options, certFile, certSource, alternatorClient, httpClient, js, muVars, alnVars, now, thr, harness, trace>>

\* Java nextAsURI: Math.abs(nextLiveNodeIndex.getAndIncrement() % nodes.size()), of
\* the old value
nextAsURI ==
    /\ impl = "java" /\ calls < MaxCalls
    /\ cursor' = [value |-> incr32(cursor.value),
                  index |-> mathAbs(rem32(cursor.value, Len(liveNodes)))]
    /\ calls' = calls + 1
    /\ UNCHANGED <<impl, cfg, options, certFile, certSource, alternatorClient, httpClient, js, muVars, alnVars, now, thr, harness, trace>>

\* C# NextAsUri: Math.Abs(Interlocked.Increment(ref _nextLiveNodeIndex) % nodes.Count),
\* of the new value
NextAsUri ==
    /\ impl = "csharp" /\ calls < MaxCalls
    /\ cursor' = [value |-> incr32(cursor.value),
                  index |-> mathAbs(rem32(incr32(cursor.value), Len(liveNodes)))]
    /\ calls' = calls + 1
    /\ UNCHANGED <<impl, cfg, options, certFile, certSource, alternatorClient, httpClient, js, muVars, alnVars, now, thr, harness, trace>>

NextCursor == nextNode \/ nextAsURI \/ NextAsUri

\* next() of the three directories that count, from any value of the counter
SpecCursor == InitCursor /\ [][NextCursor]_vars

\* ------------------------------ Java AlternatorLiveNodes.pickSupportedDatacenterRack
\* options holds the datacenter and the rack the application asked for, cfg those of
\* liveNodesInstance (and in the end of the directory returned), depth the number of
\* recursive calls, snap the list hostsWithFakeRack

\* a retry that asks for the same rack again
retryFilterSame(datacenter, rack) == [Datacenter |-> datacenter, Rack |-> rack]

\* the arguments of the recursive call: pickSupportedDatacenterRack(seedURI, datacenter, "")
retryFilter(datacenter, rack) == [Datacenter |-> datacenter, Rack |-> ""]

\* new AlternatorLiveNodes(seedURI, "", "")
noFilter == [Datacenter |-> "", Rack |-> ""]

\* the head of pickSupportedDatacenterRack: the constructor and validate(), which
\* throw for a seed that is no URL, and the return of the instance without filter
pickHead(seedOK, datacenter, rack) ==
    IF ~seedOK THEN "ps_throw"
    ELSE IF datacenter = "" /\ rack = "" THEN "ps_ret"
    ELSE "ps_fake"

\* no directory yet; the application has chosen a datacenter and a rack
InitPick ==
    /\ impl = "java"
    /\ js = JsLoaded /\ certFile = NoCertFile /\ certSource = NoCertSource /\ httpClient = NoClient /\ alternatorClient = NoAlternatorClient /\ cursor = NoCursor
    /\ options \in [Rack : Racks, Datacenter : Datacenters]
    /\ cfg = NewALNConfig
    /\ initialNodes = <<>> /\ liveNodes = <<>> /\ nextLiveNodeIdx = 0
    /\ updating = FALSE /\ nextUpdate = 0 /\ idleUpdaterStarted = FALSE
    /\ ctxDone = FALSE /\ updateSignal = 0 /\ tickC = FALSE /\ tickAt = 0
    /\ now = 1
    /\ nodes = <<>> /\ nextNodeIndex = 0 /\ mutex = 0 /\ ctxs = <<>> /\ rounds = 0
    /\ thr = [t \in Threads |-> IF t \in Callers THEN Idle ELSE Free]
    /\ calls = 0
    /\ harness = FALSE /\ trace = NoTrace

\* pickSupportedDatacenterRack(seedURI, datacenter, rack) is called
pickSupportedDatacenterRack(c) ==
    /\ impl = "java" /\ c = 1 /\ CanCall(c)
    /\ \E seedOK \in BOOLEAN :
          thr' = [thr EXCEPT ![c] = [Idle EXCEPT !.op = "pickSupportedDatacenterRack",
                                                 !.pc = pickHead(seedOK, options.Datacenter, options.Rack)]]
    /\ cfg' = [cfg EXCEPT !.Datacenter = options.Datacenter, !.Rack = options.Rack]
    /\ calls' = calls + 1
    /\ UNCHANGED <<impl, options, certFile, certSource, cursor, alternatorClient, httpClient, js, muVars, alnVars, now, harness, trace>>

\* checkIfRackDatacenterFeatureIsSupported: getNodes(fakeRackUrl); its IOException
\* becomes FailedToCheck, and that or any other exception leaves the function
checkIfRackDatacenterFeatureIsSupportedFake(c) ==
    /\ impl = "java" /\ thr[c].pc = "ps_fake"
    /\ \E resp \in TextResponses :
          thr' = [thr EXCEPT ![c].pc = IF javaGetNodes(resp).kind = "list" THEN "ps_base" ELSE "ps_throw",
                             ![c].snap = javaGetNodes(resp).nodes,
                             ![c].reqs = Append(@, [query |-> fakeRackQuery, resp |-> resp])]
    /\ UNCHANGED <<impl, cfg, options, certFile, certSource, cursor, alternatorClient, httpClient, js, muVars, alnVars, now, calls, harness, trace>>

\* checkIfRackDatacenterFeatureIsSupported: getNodes(uri), FailedToCheck for an empty
\* list, else hostsWithFakeRack.size() != hostsWithoutRack.size(); when that is false
\* the function returns new AlternatorLiveNodes(seedURI, "", "")
checkIfRackDatacenterFeatureIsSupported(c) ==
    /\ impl = "java" /\ thr[c].pc = "ps_base"
    /\ \E resp \in TextResponses :
          LET hostsWithoutRack == javaGetNodes(resp)
              failed == hostsWithoutRack.kind # "list" \/ hostsWithoutRack.nodes = <<>>
              isSupported == Len(thr[c].snap) # Len(hostsWithoutRack.nodes)
          IN /\ thr' = [thr EXCEPT ![c].pc = IF failed THEN "ps_throw"
                                             ELSE IF isSupported THEN "ps_set" ELSE "ps_ret",
                                   ![c].snap = <<>>,
                                   ![c].ret = IF ~failed /\ ~isSupported THEN "unsupported" ELSE None,
                                   ![c].reqs = Append(@, [query |-> <<>>, resp |-> resp])]
             /\ cfg' = IF ~failed /\ ~isSupported
                       THEN [cfg EXCEPT !.Datacenter = noFilter.Datacenter, !.Rack = noFilter.Rack]
                       ELSE cfg
    /\ UNCHANGED <<impl, options, certFile, certSource, cursor, alternatorClient, httpClient, js, muVars, alnVars, now, calls, harness, trace>>

\* checkIfRackAndDatacenterSetCorrectly: a list with nodes returns the instance; the
\* empty list is a ValidationError, after which a rack that is set is dropped in a
\* recursive call and anything else gives new AlternatorLiveNodes(seedURI, "", "")
checkIfRackAndDatacenterSetCorrectly(c) ==
    /\ impl = "java" /\ thr[c].pc = "ps_set"
    /\ \E resp \in TextResponses :
          LET got == javaGetNodes(resp)
              retry == retryFilter(cfg.Datacenter, cfg.Rack)
          IN IF got.kind # "list"
             THEN /\ thr' = [thr EXCEPT ![c].pc = "ps_throw",
                                        ![c].reqs = Append(@, [query |-> nextAsLocalNodesURL(cfg), resp |-> resp])]
                  /\ cfg' = cfg
             ELSE IF got.nodes # <<>>
             THEN /\ thr' = [thr EXCEPT ![c].pc = "ps_ret",
                                        ![c].reqs = Append(@, [query |-> nextAsLocalNodesURL(cfg), resp |-> resp])]
                  /\ cfg' = cfg
             ELSE IF cfg.Rack # ""
             THEN /\ thr' = [thr EXCEPT ![c].pc = pickHead(TRUE, retry.Datacenter, retry.Rack),
                                        ![c].depth = @ + 1,
                                        ![c].reqs = Append(@, [query |-> nextAsLocalNodesURL(cfg), resp |-> resp])]
                  /\ cfg' = [cfg EXCEPT !.Datacenter = retry.Datacenter, !.Rack = retry.Rack]
             ELSE /\ thr' = [thr EXCEPT ![c].pc = "ps_ret",
                                        ![c].reqs = Append(@, [query |-> nextAsLocalNodesURL(cfg), resp |-> resp])]
                  /\ cfg' = [cfg EXCEPT !.Datacenter = noFilter.Datacenter, !.Rack = noFilter.Rack]
    /\ UNCHANGED <<impl, options, certFile, certSource, cursor, alternatorClient, httpClient, js, muVars, alnVars, now, calls, harness, trace>>

NextPick ==
    \/ \E c \in Callers : pickSupportedDatacenterRack(c)
    \/ \E c \in Callers : checkIfRackDatacenterFeatureIsSupportedFake(c)
    \/ \E c \in Callers : checkIfRackDatacenterFeatureIsSupported(c)
    \/ \E c \in Callers : checkIfRackAndDatacenterSetCorrectly(c)
    \/ \E c \in Callers : Return(c)

\* pickSupportedDatacenterRack of Java, for every datacenter and rack
SpecPick == InitPick /\ [][NextPick]_vars

\* ------------------------------------------------------ AlternatorLB.AWSConfig
\* a RoundTripper is nil, a *http.Transport ("std") or of another type ("custom");
\* an http.Client given by the application is named by its Transport, "none" is no client
HTTPClients == {"none", "nil", "std", "custom"}
Files == {"v1", "part_014"}

\* cfg.HTTPClient: the application's client, else &http.Client{} in go/v1 and a client
\* with common.DefaultHTTPTransport() in part_014
clientTransport(file, client) ==
    IF client # "none" THEN client ELSE IF file = "v1" THEN "nil" ELSE "std"

\* if cfg.HTTPClient.Transport == nil { cfg.HTTPClient.Transport = http.DefaultTransport }
orDefaultTransport(transport) == IF transport = "nil" THEN "std" ELSE transport

\* transport, ok := cfg.HTTPClient.Transport.(*http.Transport); if !ok { Patch } else { return error }
patchBranch(ok) == IF ~ok THEN "patch" ELSE "error"

\* PatchHTTPTransport(transport): transport.TLSClientConfig of the nil pointer a failed
\* type assertion leaves panics
PatchHTTPTransport(transport, ok) == IF ok THEN "patched" ELSE "panic"

\* AWSConfig: kind is "ok" for (cfg, nil), "error" for a returned error and "panic"
\* for a nil pointer dereference; patched tells whether GetClientCertificate was set
awsConfig(in) ==
    LET t0 == clientTransport(in.file, in.client)
        ignoring == in.file = "part_014" /\ in.ignore
        t1 == IF ignoring THEN orDefaultTransport(t0) ELSE t0
        t2 == IF in.cert THEN orDefaultTransport(t1) ELSE t1
        ok == t2 = "std"
    IN IF ignoring /\ t1 # "std" THEN [kind |-> "error", patched |-> FALSE, transport |-> t1]
       ELSE IF ~in.cert THEN [kind |-> "ok", patched |-> FALSE, transport |-> t1]
       ELSE IF patchBranch(ok) = "error" THEN [kind |-> "error", patched |-> FALSE, transport |-> t2]
       ELSE IF PatchHTTPTransport(t2, ok) = "panic" THEN [kind |-> "panic", patched |-> FALSE, transport |-> t2]
       ELSE [kind |-> "ok", patched |-> TRUE, transport |-> t2]

\* a directory of go/common behind an AlternatorLB
InitAWSConfig == InitCheck /\ options = NoOptions

\* lb.AWSConfig() with any HTTPClient, ClientCertificate and IgnoreServerCertificateError
\* in lb.cfg; snap keeps the configuration, res what came back
AWSConfig(c) ==
    /\ impl = "flag" /\ CanCall(c) /\ Alive
    /\ \E in \in [file : Files, client : HTTPClients, cert : BOOLEAN, ignore : BOOLEAN] :
          thr' = [thr EXCEPT ![c] = [Idle EXCEPT !.op = "AWSConfig", !.snap = in, !.res = awsConfig(in),
                                                 !.pc = IF awsConfig(in).kind = "panic" THEN "crashed" ELSE "uo_ret"]]
    /\ calls' = calls + 1
    /\ UNCHANGED <<impl, cfg, options, certFile, certSource, cursor, alternatorClient, httpClient, js, muVars, alnVars, now, harness, trace>>

NextAWSConfig ==
    \/ \E c \in Callers : AWSConfig(c)
    \/ \E c \in Callers : Return(c)

\* AWSConfig of the AlternatorLB of go/v1
SpecAWSConfig == InitAWSConfig /\ [][NextAWSConfig]_vars

\* ------------------------------------------------------------- CertSource
\* certificates are 1, 2, ...; the file's ModTime is a time of the clock
NewFileCertificate == [certPath |-> "cert.pem", cert |-> nil, modTime |-> 0]
NewCertificate(certificate) == [certPath |-> "", cert |-> certificate, modTime |-> 0]

\* what the file can be: gone or unreadable (Stat fails), or there with a ModTime
\* and a content that loads as a key pair or does not
CertFiles == [stat : BOOLEAN, modTime : 1..MaxTime, pair : {nil, 1, 2}]

\* a test that never finds the cached certificate current
cachedNever(cert, modTime, fileModTime) == FALSE

\* c.cert != nil && certStat.ModTime().Equal(c.modTime)
cached(cert, modTime, fileModTime) == cert # nil /\ fileModTime = modTime

\* GetCertificate, under c.mutex from the Stat on: source is the CertSource afterwards,
\* cert and err what is returned, load whether LoadX509KeyPair was called
getCertificate(src, file) ==
    IF src.certPath = ""
    THEN [source |-> src, cert |-> src.cert, err |-> FALSE, load |-> FALSE]
    ELSE IF ~file.stat
    THEN [source |-> src, cert |-> src.cert, err |-> src.cert = nil, load |-> FALSE]
    ELSE IF cached(src.cert, src.modTime, file.modTime)
    THEN [source |-> src, cert |-> src.cert, err |-> FALSE, load |-> FALSE]
    ELSE IF file.pair = nil
    THEN [source |-> src, cert |-> src.cert, err |-> src.cert = nil, load |-> TRUE]
    ELSE [source |-> [src EXCEPT !.cert = file.pair, !.modTime = file.modTime],
          cert |-> file.pair, err |-> FALSE, load |-> TRUE]

\* a CertSource of a file or of a certificate in memory, and any file
InitCertSource ==
    /\ impl = "flag"
    /\ js = JsLoaded /\ httpClient = NoClient /\ alternatorClient = NoAlternatorClient /\ cursor = NoCursor
    /\ certSource \in {NewFileCertificate, NewCertificate(1)}
    /\ certFile \in CertFiles
    /\ cfg = NewALNConfig /\ options = NoOptions
    /\ initialNodes = NewAlternatorLiveNodes(<<1>>).nodes
    /\ liveNodes = initialNodes /\ nextLiveNodeIdx = 0
    /\ updating = FALSE /\ nextUpdate = 0 /\ idleUpdaterStarted = FALSE
    /\ ctxDone = FALSE /\ updateSignal = 0 /\ tickC = FALSE /\ tickAt = 0
    /\ now = 1
    /\ nodes = <<>> /\ nextNodeIndex = 0 /\ mutex = 0 /\ ctxs = <<>> /\ rounds = 0
    /\ thr = [t \in Threads |-> IF t \in Callers THEN Idle ELSE Free]
    /\ calls = 0
    /\ harness = FALSE /\ trace = NoTrace

\* c.GetCertificate(), called by the TLS handshake of a connection; res keeps what
\* it returned
GetCertificate(c) ==
    /\ impl = "flag" /\ CanCall(c)
    /\ certSource' = getCertificate(certSource, certFile).source
    /\ thr' = [thr EXCEPT ![c] = [Idle EXCEPT !.op = "GetCertificate", !.pc = "uo_ret",
                                              !.res = [cert |-> getCertificate(certSource, certFile).cert,
                                                       err |-> getCertificate(certSource, certFile).err,
                                                       load |-> getCertificate(certSource, certFile).load]]]
    /\ calls' = calls + 1
    /\ UNCHANGED <<impl, cfg, options, certFile, cursor, alternatorClient, httpClient, js, muVars, alnVars, now, harness, trace>>

\* the file is written, touched, removed or put back
CertFileChange ==
    /\ impl = "flag" /\ certSource.certPath # ""
    /\ certFile' \in CertFiles \ {certFile}
    /\ UNCHANGED <<impl, cfg, options, certSource, cursor, alternatorClient, httpClient, js, muVars, alnVars, now, calls, thr, harness, trace>>

NextCertSource ==
    \/ \E c \in Callers : GetCertificate(c)
    \/ \E c \in Callers : Return(c)
    \/ CertFileChange

\* GetCertificate of a CertSource while the file changes under it
SpecCertSource == InitCertSource /\ [][NextCertSource]_vars

Init == InitALN \/ InitMutex \/ InitJs \/ InitJava \/ InitCheck \/ InitNew \/ InitHttp \/ InitCpp

NextALN ==
    \/ \E t \in Threads : nextNodeLoad(t)
    \/ \E t \in Threads : nextNodeAdd(t)
    \/ \E t \in Threads : updateLiveNodes(t)
    \/ \E c \in Callers : Return(c)
    \/ ClockTick
    \/ \E c \in Callers : FlagNextNodeLoad(c)
    \/ \E c \in Callers : NextNodeDue(c)
    \/ \E c \in Callers : FlagNextNodeCAS(c)
    \/ \E g \in Goroutines : FlagDeferNextUpdate(g)
    \/ \E g \in Goroutines : FlagDeferClear(g)
    \/ \E c \in Callers : UpdateOnceCAS(c)
    \/ \E c \in Callers : UpdateOnceClear(c)
    \/ \E c \in Callers : Start(c)
    \/ \E c \in Callers : Stop(c)
    \/ \E c \in Callers : IdleNextNodeBegin(c)
    \/ \E c \in Callers : IdleNextNodeLoad(c)
    \/ \E c \in Callers : IdleNextNodeCAS(c)
    \/ \E c \in Callers : IdleNextNodeSignal(c)
    \/ \E g \in Goroutines : UpdaterDone(g)
    \/ \E g \in Goroutines : UpdaterTick(g)
    \/ \E g \in Goroutines : UpdaterTickStore(g)
    \/ \E g \in Goroutines : UpdaterSignal(g)
    \/ \E g \in Goroutines : UpdaterLoop(g)

NextMutex ==
    \/ \E c \in Callers : MuStart(c)
    \/ \E c \in Callers : MuStop(c)
    \/ \E c \in Callers : PickNodeCall(c)
    \/ \E t \in Threads : pickNodeLock(t)
    \/ \E t \in Threads : pickNodeRead(t)
    \/ \E t \in Threads : pickNodeIncr(t)
    \/ \E g \in Goroutines : updateNodesLoop(g)
    \/ \E g \in Goroutines : updateThreadLoop(g)
    \/ \E g \in Goroutines : doUpdateNodesFetch(g)
    \/ \E g \in Goroutines : updateThreadFetch(g)
    \/ \E g \in Goroutines : updateLock(g)
    \/ \E g \in Goroutines : updateStore(g)
    \/ \E c \in Callers : Return(c)

Next == NextALN \/ NextMutex \/ NextJs \/ NextJava \/ NextCheck \/ NextNew \/ NextHttp \/ NextCpp

\* every implementation
Spec == Init /\ [][Next]_vars

\* the two AlternatorLiveNodes of Go
SpecALN == InitALN /\ [][NextALN]_vars

\* the idle variant alone, any configuration
InitIdle == InitALN /\ impl = "idle"

NextIdle ==
    \/ \E c \in Callers : Start(c)
    \/ \E c \in Callers : Stop(c)
    \/ \E c \in Callers : IdleNextNodeBegin(c)
    \/ \E c \in Callers : IdleNextNodeLoad(c)
    \/ \E c \in Callers : NextNodeDue(c)
    \/ \E c \in Callers : IdleNextNodeCAS(c)
    \/ \E c \in Callers : IdleNextNodeSignal(c)
    \/ \E t \in Threads : nextNodeLoad(t)
    \/ \E t \in Threads : nextNodeAdd(t)
    \/ \E t \in Threads : updateLiveNodes(t)
    \/ \E c \in Callers : Return(c)
    \/ \E g \in Goroutines : UpdaterDone(g)
    \/ \E g \in Goroutines : UpdaterTick(g)
    \/ \E g \in Goroutines : UpdaterTickStore(g)
    \/ \E g \in Goroutines : UpdaterSignal(g)
    \/ \E g \in Goroutines : UpdaterLoop(g)
    \/ ClockTick

\* what a thread of the idle variant does once it runs: every step but the entry
\* into a public call, which is the application's choice
IdleStep(t) ==
    \/ IdleNextNodeLoad(t)
    \/ NextNodeDue(t)
    \/ IdleNextNodeCAS(t)
    \/ IdleNextNodeSignal(t)
    \/ nextNodeLoad(t)
    \/ nextNodeAdd(t)
    \/ updateLiveNodes(t)
    \/ Return(t)
    \/ UpdaterDone(t)
    \/ UpdaterTick(t)
    \/ UpdaterTickStore(t)
    \/ UpdaterSignal(t)
    \/ UpdaterLoop(t)

\* the Go scheduler runs every runnable goroutine, a select with a ready case
\* proceeds, and the HTTP client's exchange ends in an answer or an error
SpecIdleFair ==
    InitIdle /\ [][NextIdle]_vars /\ \A t \in Threads : WF_vars(IdleStep(t))

\* the idle variant with a running ticker and a directory built from two seeds, under
\* the longer clock: NextNode calls and the updater they launch
InitIdleDue ==
    /\ InitIdle
    /\ cfg.IdleUpdatePeriod = 1
    /\ initialNodes = NewAlternatorLiveNodes(<<1, 2>>).nodes

NextIdleDue ==
    \/ \E c \in Callers : IdleNextNodeBegin(c)
    \/ \E c \in Callers : IdleNextNodeLoad(c)
    \/ \E c \in Callers : NextNodeDue(c)
    \/ \E c \in Callers : IdleNextNodeCAS(c)
    \/ \E c \in Callers : IdleNextNodeSignal(c)
    \/ \E t \in Threads : nextNodeLoad(t)
    \/ \E t \in Threads : nextNodeAdd(t)
    \/ \E t \in Threads : updateLiveNodes(t)
    \/ \E c \in Callers : Return(c)
    \/ \E g \in Goroutines : UpdaterTick(g)
    \/ \E g \in Goroutines : UpdaterTickStore(g)
    \/ \E g \in Goroutines : UpdaterSignal(g)
    \/ \E g \in Goroutines : UpdaterLoop(g)
    \/ ClockTickLate

SpecIdleDue == InitIdleDue /\ [][NextIdleDue]_vars

\* the flag variant of a directory built from two seeds, under the longer clock
InitFlagDue ==
    /\ InitALN /\ impl = "flag"
    /\ initialNodes = NewAlternatorLiveNodes(<<1, 2>>).nodes

NextFlagDue ==
    \/ \E c \in Callers : FlagNextNodeLoad(c)
    \/ \E c \in Callers : NextNodeDue(c)
    \/ \E c \in Callers : FlagNextNodeCAS(c)
    \/ \E t \in Threads : nextNodeLoad(t)
    \/ \E t \in Threads : nextNodeAdd(t)
    \/ \E t \in Threads : updateLiveNodes(t)
    \/ \E g \in Goroutines : FlagDeferNextUpdate(g)
    \/ \E g \in Goroutines : FlagDeferClear(g)
    \/ \E c \in Callers : UpdateOnceCAS(c)
    \/ \E c \in Callers : UpdateOnceClear(c)
    \/ \E c \in Callers : Return(c)
    \/ ClockTickLate

\* what an attempt does after its HTTP exchange, which http.Get does not bound in
\* time, has ended: the deferred function of the goroutine, the store of UpdateOnce
FlagStep(t) ==
    \/ FlagDeferNextUpdate(t)
    \/ FlagDeferClear(t)
    \/ UpdateOnceClear(t)

\* the Go scheduler lets a runnable goroutine run
SpecFlagDue ==
    InitFlagDue /\ [][NextFlagDue]_vars /\ WF_vars(\E t \in Threads : FlagStep(t))

\* the implementations that can be stopped, with the legacy one beside go-v2
InitStop == InitIdle \/ InitMutex \/ InitJs
NextStop == NextIdle \/ NextMutex \/ NextJs
SpecStop == InitStop /\ [][NextStop]_vars

\* the request of g was made with a context that has been cancelled since:
\* http.DefaultClient has no timeout, so only such a request is sure to end
requestCancelled(g) ==
    thr[g].pc = "mu_fetch" /\ thr[g].req > 0 /\ ctxs[thr[g].req]

\* what a thread of the mutex variants does once it runs, but for the HTTP exchange
MutexStep(t) ==
    \/ pickNodeLock(t)
    \/ pickNodeRead(t)
    \/ pickNodeIncr(t)
    \/ updateNodesLoop(t)
    \/ updateThreadLoop(t)
    \/ updateLock(t)
    \/ updateStore(t)
    \/ Return(t)

\* the Go scheduler runs every runnable goroutine; a request whose context is
\* cancelled returns; any other request may hang for ever
SpecMutexFair ==
    /\ InitMutex /\ [][NextMutex]_vars
    /\ \A t \in Threads : WF_vars(MutexStep(t))
    /\ \A g \in Goroutines : WF_vars(requestCancelled(g) /\ doUpdateNodesFetch(g))

\* the two mutex-based AlternatorNodes of Go
SpecMutex == InitMutex /\ [][NextMutex]_vars

\* the steps of NextNode after its first statement, in either AlternatorLiveNodes
NextNodeStep(c) ==
    \/ IdleNextNodeLoad(c)
    \/ NextNodeDue(c)
    \/ FlagNextNodeCAS(c)
    \/ IdleNextNodeCAS(c)
    \/ IdleNextNodeSignal(c)
    \/ nextNodeLoad(c)
    \/ nextNodeAdd(c)
    \/ Return(c)

\* every implementation written in Go
InitGo == InitALN \/ InitMutex
NextGo == NextALN \/ NextMutex
SpecGo == InitGo /\ [][NextGo]_vars

\* =================================================================== claims
IsALN == impl \in {"flag", "idle"}
NoPanic == \A t \in Threads : thr[t].pc # "crashed"

\* C1: every NextNode call adds 1 to nextLiveNodeIdx exactly once and returns the
\* element at (value of the Add modulo length) of one list, which was liveNodes when
\* the call loaded it, whatever refreshes replace the list meanwhile; it never panics.
C1_NextNodeOneList ==
    IsALN =>
      \A c \in Callers :
         /\ thr[c].op = "NextNode" => thr[c].pc # "crashed"
         /\ (thr[c].op = "NextNode" /\ thr[c].pc = "nx_ret") =>
               /\ thr[c].adds = 1
               /\ thr[c].live
               /\ \E i \in 1..Len(thr[c].snap) :
                     /\ i - 1 = thr[c].idx % Len(thr[c].snap)
                     /\ thr[c].ret = thr[c].snap[i]

\* a call returns an element of the longer list it loaded after a refresh shrank liveNodes
C1_Witness ==
    \E c \in Callers :
       /\ IsALN /\ ~harness /\ thr[c].op = "NextNode" /\ thr[c].pc = "nx_ret"
       /\ Len(liveNodes) < Len(thr[c].snap)
       /\ thr[c].idx % Len(thr[c].snap) >= Len(liveNodes)

\* C2: after a successful construction liveNodes is never empty.
C2_LiveNodesNeverEmpty == IsALN => Len(liveNodes) > 0

\* a refresh that fetched zero nodes has finished
C2_Witness ==
    /\ IsALN
    /\ \E t \in Threads : thr[t].res.kind = "http" /\ thr[t].res.status = 200 /\ getNodes(thr[t].res).uris = <<>>

\* C3: in the mutex variants the update that received the body [] leaves nodes as it is.
C3_EmptyArrayKeepsNodes ==
    [][\A g \in Goroutines :
          (thr[g].pc = "mu_store" /\ thr[g].res.emptyArray) => nodes' = nodes]_vars

\* the attempts the claim C4 speaks of: no answer, a status other than 200, a body
\* that is not a JSON array of strings, or an array with no usable hostname
FailedOrEmpty(resp) ==
    \/ resp.kind = "neterr"
    \/ resp.status # 200
    \/ resp.kind = "badjson"
    \/ \A i \in 1..Len(resp.hosts) : resp.hosts[i] = BadHost

\* C4: a refresh attempt that fails or yields zero nodes leaves liveNodes as it was,
\* and no thread panics.
C4_FailedRefreshKeepsList ==
    /\ [](IsALN => NoPanic)
    /\ [][\A t \in Threads :
            (IsALN /\ thr[t].pc = "ul_fetch" /\ thr'[t].pc # "ul_fetch" /\ FailedOrEmpty(thr'[t].res))
               => liveNodes' = liveNodes]_vars

\* a failed attempt has finished on a list that an earlier refresh had stored
C4_Witness ==
    /\ IsALN /\ liveNodes # initialNodes
    /\ \E t \in Threads : thr[t].res.kind = "http" /\ thr[t].res.status # 200

\* the threads that are inside updateLiveNodes
Refreshing == {t \in Threads : InRefresh(t)}

\* C5: in the flag variant at most one updateLiveNodes runs at a time, and an
\* UpdateOnce that returned false has fetched nothing.
C5_OneRefreshInFlight ==
    impl = "flag" =>
       /\ Cardinality(Refreshing) <= 1
       /\ \A c \in Callers :
             (thr[c].pc = "uo_ret" /\ thr[c].ret = FALSE) => thr[c].adds = 0

\* UpdateOnce returned false and a NextNode found the flag taken, while a refresh runs
C5_Witness ==
    /\ impl = "flag" /\ Cardinality(Refreshing) = 1
    /\ \E c, d \in Callers :
          /\ thr[c].pc = "uo_ret" /\ thr[c].ret = FALSE
          /\ thr[d].op = "NextNode" /\ thr[d].pc = "nn_load"

\* how often the harness saw an address
Count(a) == Cardinality({i \in 1..Len(trace.vals) : trace.vals[i] = a})
AllIdle == \A c \in Callers : thr[c].pc = "idle"

\* C6: when N*K calls against a fixed NodeSet of K addresses have returned, in any
\* interleaving, each address has been returned exactly N times.
C6_ExactFairness ==
    (harness /\ AllIdle /\ Len(trace.vals) % Len(HarnessNodes) = 0) =>
       /\ NoPanic
       /\ Len(trace.vals) = calls
       /\ \A i \in 1..Len(HarnessNodes) :
             Count(HarnessNodes[i]) * Len(HarnessNodes) = Len(trace.vals)

\* two callers have made two full rounds over at least two addresses
C6_Witness ==
    /\ harness /\ AllIdle /\ Len(HarnessNodes) >= 2
    /\ Len(trace.vals) = FairRounds * Len(HarnessNodes)
    /\ trace.who = Callers

\* the position of an address in the NodeSet, zero-based
PosOf(a) == (CHOOSE i \in 1..Len(HarnessNodes) : HarnessNodes[i] = a) - 1

\* only c has called so far
OnlyCaller(c) ==
    /\ trace.who \subseteq {c}
    /\ \A d \in Callers \ {c} : thr[d].pc = "idle"

\* C7: the calls one thread makes in sequence on a fixed NodeSet of size K return
\* the positions c, c+1, c+2, ... modulo K, and none panics.
C7_SequentialRoundRobin ==
    (harness /\ \E c \in Callers : OnlyCaller(c)) =>
       /\ NoPanic
       /\ \A i \in 1..(Len(trace.vals) - 1) :
             PosOf(trace.vals[i + 1]) = (PosOf(trace.vals[i]) + 1) % Len(HarnessNodes)

\* one thread has gone more than once around at least two addresses
C7_Witness ==
    /\ harness /\ Len(HarnessNodes) >= 2 /\ Len(trace.vals) > Len(HarnessNodes)
    /\ \E c \in Callers : OnlyCaller(c)

\* C9: once Stop has returned, the updater starts no updateLiveNodes.
C9_NoRefreshAfterStop ==
    [][\A g \in Goroutines :
          (impl = "idle" /\ ctxDone /\ thr[g].pc = "select")
             => thr'[g].pc \notin {"up_tick", "nn_load"}]_vars

\* C8: in the idle variant, whatever the configuration, a NextNode that found the
\* schedule due and took it over (its CompareAndSwap on nextUpdate succeeded) while
\* Stop has not been called is followed by a refresh attempt, unless a Stop calls the
\* refreshes off.
C8_DueNextNodeRefreshes ==
    (impl = "idle" /\ ~ctxDone /\ \E c \in Callers : thr[c].op = "NextNode" /\ thr[c].pc = "nx_send")
       ~> (ctxDone \/ \E g \in Goroutines : thr[g].op = "idleUpd" /\ thr[g].pc = "ul_fetch")

\* C10: a stop operation on a directory that is already stopped (Stop of the idle
\* variant, Stop of go-v2 after Start, done() of Alternator.js) does not panic and
\* changes nothing of the directory, so any number of calls leaves what one call left.
C10_StopIdempotent ==
    [][/\ \A c \in Callers :
            (Stop(c) /\ ctxDone) => (thr'[c].pc = "st_ret" /\ alnVars' = alnVars)
       /\ \A c \in Callers :
            (MuStop(c) /\ ctxIsDone) => (thr'[c].pc = "st_ret" /\ muVars' = muVars)
       /\ (JsDone /\ js.done) => [js EXCEPT !.dones = 0]' = [js EXCEPT !.dones = 0]]_vars

\* the stop operation has been called twice
C10_Witness ==
    \/ impl = "idle" /\ ctxDone /\ \A c \in Callers : thr[c].op = "Stop" /\ thr[c].pc = "st_ret"
    \/ impl = "mutex" /\ ctxIsDone /\ \A c \in Callers : thr[c].op = "Stop" /\ thr[c].pc = "st_ret"
    \/ impl = "js" /\ js.done /\ js.dones = 2

\* Stop of go-v2 has been called after the one Start
StoppedOnce == impl = "mutex" /\ Len(ctxs) = 1 /\ ctxs[1]

C12_RefreshThreadSurvives ==
    impl \in {"java", "csharp"} => \A g \in Goroutines : thr[g].pc # "died"

\* C13: a call for the next node never waits for the network. In the Go
\* AlternatorLiveNodes a caller inside NextNode is never the one making the HTTP
\* request and always has a step it can take, whatever the refreshes in flight are
\* doing; in the mutex-based AlternatorNodes no update holds the mutex while its
\* HTTP request is outstanding.
C13_NextNeverWaitsOnNetwork ==
    /\ IsALN => \A c \in Callers :
          (thr[c].op = "NextNode" /\ thr[c].pc # "idle")
             => thr[c].pc # "ul_fetch" /\ ENABLED NextNodeStep(c)
    /\ impl \in {"mutex", "legacy"} => \A g \in Goroutines :
          thr[g].pc = "mu_fetch" => mutex # g

\* a NextNode that started after a refresh's request went out has its node while
\* the request is still outstanding
C13_Witness ==
    /\ IsALN
    /\ \E g \in Goroutines : thr[g].pc = "ul_fetch"
    /\ \E c \in Callers : thr[c].op = "NextNode" /\ thr[c].pc = "nx_ret" /\ thr[c].adds = 1
    /\ nextLiveNodeIdx >= 2

\* the request of the check failed, or its answer holds no usable hostname
CheckFetchFailedOrEmpty(resp) ==
    \/ resp.kind \in {"neterr", "badjson"}
    \/ resp.status # 200
    \/ \A i \in 1..Len(resp.hosts) : urlParse(resp.hosts[i]).err

\* C14: CheckIfRackAndDatacenterSetCorrectly returns nil without a call of nextNode
\* and without a request when the directory has neither rack nor datacenter;
\* otherwise it has made exactly one request, carrying the filter of the
\* configuration, and returns an error exactly when that request failed or gave
\* an empty list.
C14_CheckSetCorrectly ==
    \A c \in Callers :
       (thr[c].op = "CheckSet" /\ thr[c].pc = "ck_ret") =>
          IF cfg.Rack = "" /\ cfg.Datacenter = ""
          THEN thr[c].ret = "nil" /\ thr[c].reqs = <<>> /\ thr[c].adds = 0
          ELSE /\ Len(thr[c].reqs) = 1 /\ thr[c].adds = 1
               /\ \A k \in {"rack", "dc"} :
                     LET v == IF k = "rack" THEN cfg.Rack ELSE cfg.Datacenter
                     IN (v # "") <=> \E i \in 1..Len(thr[c].reqs[1].query) :
                                        thr[c].reqs[1].query[i] = <<k, v>>
               /\ Len(thr[c].reqs[1].query) <= 2
               /\ (thr[c].ret = "error") <=> CheckFetchFailedOrEmpty(thr[c].reqs[1].resp)
               /\ thr[c].ret \in {"nil", "error"}

\* a datacenter is configured and the node answered with an empty array: an error
C14_Witness ==
    /\ cfg.Datacenter # "" /\ cfg.Rack = ""
    /\ \E c \in Callers :
          /\ thr[c].op = "CheckSet" /\ thr[c].pc = "ck_ret" /\ thr[c].ret = "error"
          /\ thr[c].reqs[1].resp = [kind |-> "http", status |-> 200, hosts |-> <<>>]

\* C15: CheckIfRackDatacenterFeatureIsSupported first asks with rack=fakeRack and,
\* unless that request failed, asks once more without any filter. When the second
\* request fails or gives an empty list the result is an error; otherwise it is
\* false when the two lists have the same length and true when they differ.
C15_CheckFeatureSupported ==
    \A c \in Callers :
       (thr[c].op \in {"CheckSupported", "CheckSupportedFake"} /\ thr[c].pc = "ck_ret") =>
          LET reqs == thr[c].reqs
              withFake == getNodes(reqs[1].resp)
              without == getNodes(reqs[2].resp)
          IN /\ Len(reqs) \in {1, 2} /\ thr[c].adds = 2
             /\ reqs[1].query = <<<<"rack", "fakeRack">>>>
             /\ Len(reqs) = 1 <=> withFake.err
             /\ Len(reqs) = 1 => thr[c].ret = "error"
             /\ Len(reqs) = 2 =>
                   /\ reqs[2].query = <<>>
                   /\ CheckFetchFailedOrEmpty(reqs[2].resp) <=> thr[c].ret = "error"
                   /\ ~CheckFetchFailedOrEmpty(reqs[2].resp) =>
                         /\ Len(withFake.uris) = Len(without.uris) <=> thr[c].ret = "false"
                         /\ Len(withFake.uris) # Len(without.uris) <=> thr[c].ret = "true"

\* the node answers the same three hostnames with and without the fake rack: false
C15_Witness ==
    \E c \in Callers :
       /\ thr[c].op = "CheckSupportedFake" /\ thr[c].pc = "ck_ret" /\ thr[c].ret = "false"
       /\ Len(thr[c].reqs) = 2
       /\ thr[c].reqs[1].resp = [kind |-> "http", status |-> 200, hosts |-> <<1, 2, 3>>]
       /\ thr[c].reqs[2].resp = thr[c].reqs[1].resp

\* the query carries rack=<rack>
HasRack(query, rack) == \E i \in 1..Len(query) : query[i] = <<"rack", rack>>

\* C16: when the application passed a rack, every /localnodes request the directory
\* makes for a refresh or for CheckIfRackAndDatacenterSetCorrectly carries
\* rack=<rack>, and that check does not return before it has asked a node.
C16_RackIsSent ==
    options.Rack # "" =>
       \A t \in Threads :
          /\ thr[t].op \notin {"CheckSupported", "CheckSupportedFake"} =>
                \A i \in 1..Len(thr[t].reqs) : HasRack(thr[t].reqs[i].query, options.Rack)
          /\ (thr[t].op = "CheckSet" /\ thr[t].pc = "ck_ret") => Len(thr[t].reqs) = 1

\* the constructor has returned a directory
Constructed == \A c \in Callers : thr[c].pc \notin {"new", "new_err"}

\* C17: NewAlternatorLiveNodes called with an empty seed list returns an error and no
\* directory, and the directory it returns in any other case never has an empty
\* initialNodes or an empty liveNodes.
C17_EmptySeedsRejected ==
    /\ \A c \in Callers :
          (thr[c].op = "New" /\ Len(thr[c].snap) = 0 /\ thr[c].pc # "new")
             => thr[c].pc = "new_err" /\ thr[c].ret = "error"
    /\ (IsALN /\ Constructed) => Len(initialNodes) > 0 /\ Len(liveNodes) > 0

\* the call with the empty list has returned its error
C17_Witness ==
    \E c \in Callers :
       thr[c].op = "New" /\ thr[c].snap = <<>> /\ thr[c].pc = "new_err" /\ liveNodes = <<>>

\* C18: the directory the constructor returns holds scheme://seed:port for every
\* seed, in order, as both of its lists; a NextNode that read the list while it was
\* still the seed list returns one of these addresses, and a caller inside NextNode
\* always has a step to take, whether or not the first refresh has ended.
C18_UsableAtOnce ==
    /\ [][\A c \in Callers :
            (thr[c].pc = "new" /\ thr'[c].pc = "idle") =>
               /\ initialNodes' = [i \in 1..Len(thr[c].snap) |->
                                     <<defaultScheme, thr[c].snap[i], defaultPort>>]
               /\ liveNodes' = initialNodes']_vars
    /\ [](\A c \in Callers :
            (thr[c].op = "NextNode" /\ thr[c].pc # "idle") =>
               /\ ENABLED NextNodeStep(c)
               /\ (thr[c].pc = "nx_ret" /\ thr[c].snap = initialNodes) =>
                     \E i \in 1..Len(initialNodes) : thr[c].ret = initialNodes[i])

\* the first NextNode has its seed address while the first refresh, which it
\* launched, still waits for its answer
C18_Witness ==
    /\ impl = "flag" /\ nextUpdate = 0 /\ liveNodes = initialNodes
    /\ \E g \in Goroutines : thr[g].op = "bg" /\ thr[g].pc = "ul_fetch"
    /\ \E c \in Callers :
          /\ thr[c].op = "NextNode" /\ thr[c].pc = "nx_ret"
          /\ thr[c].ret = <<defaultScheme, 2, defaultPort>>

\* the hostnames of a response from which an address can be built, in its order
ValidHosts(hosts) == SelectSeq(hosts, LAMBDA h : ~urlParse(h).err)

\* the node answered 200 with a JSON array of strings
Successful(resp) == resp.kind = "http" /\ resp.status = 200

\* C19: a refresh that received a successful response with at least one valid
\* hostname stores exactly the valid hostnames of the response, in the order of the
\* response: as scheme://host:port each in liveNodes of AlternatorLiveNodes, as
\* hostnames in nodes of the go-v2 AlternatorNodes.
C19_ResponseBecomesNodeSet ==
    [][/\ \A t \in Threads :
            (IsALN /\ thr[t].pc = "ul_fetch" /\ thr'[t].pc # "ul_fetch"
                /\ Successful(thr'[t].res) /\ ValidHosts(thr'[t].res.hosts) # <<>>)
               => liveNodes' = [i \in 1..Len(ValidHosts(thr'[t].res.hosts)) |->
                                  <<defaultScheme, ValidHosts(thr'[t].res.hosts)[i], defaultPort>>]
       /\ \A g \in Goroutines :
            (impl = "mutex" /\ thr[g].pc = "mu_store" /\ thr'[g].pc # "mu_store"
                /\ Successful(thr[g].reqs[1].resp) /\ ValidHosts(thr[g].reqs[1].resp.hosts) # <<>>)
               => nodes' = ValidHosts(thr[g].reqs[1].resp.hosts)]_vars

\* the part of C19 that speaks of AlternatorLiveNodes
C19_LiveNodesPart ==
    [][\A t \in Threads :
          (IsALN /\ thr[t].pc = "ul_fetch" /\ thr'[t].pc # "ul_fetch"
              /\ Successful(thr'[t].res) /\ ValidHosts(thr'[t].res.hosts) # <<>>)
             => liveNodes' = [i \in 1..Len(ValidHosts(thr'[t].res.hosts)) |->
                                <<defaultScheme, ValidHosts(thr'[t].res.hosts)[i], defaultPort>>]]_vars

\* C20: when the requests of a patched session are made one after the other by one
\* goroutine, no two consecutive requests go to the same node (every list the
\* directory can hold here has at least two distinct nodes), whether or not a
\* background refresh runs between them.
C20_ConsecutiveRequestsDiffer ==
    (harness /\ impl = "flag" /\ OnlyCaller(1) /\ Len(liveNodes) >= 2) =>
       \A i \in 1..(Len(trace.vals) - 1) : trace.vals[i] # trace.vals[i + 1]

\* C21: in the Java AlternatorHttpClient, under every interleaving of prepareRequest
\* calls with an updateHosts that replaces the list by a shorter one, nextHost never
\* reads an index that is out of range for the list it reads
C21_NextHostInRange ==
    impl = "http" => \A c \in Callers : thr[c].pc # "hc_throw"

\* C22: in the mutex-based AlternatorNodes, whenever the mutex is free the index is
\* a position of the list, 0 <= nextNodeIndex < len(nodes), as long as the list is
\* not empty, a refresh to a shorter list included
C22_IndexInRangeWhenUnlocked ==
    (impl \in {"mutex", "legacy"} /\ mutex = 0 /\ nodes # <<>>)
        => (0 <= nextNodeIndex /\ nextNodeIndex < Len(nodes))

\* a refresh stored a list so short that the index it found was past its end
C22_Witness ==
    /\ impl \in {"mutex", "legacy"} /\ mutex = 0 /\ nodes # <<>>
    /\ \E g \in Goroutines :
          /\ thr[g].op = "update" /\ thr[g].pc = "mu_loop"
          /\ thr[g].idx >= Len(nodes)
          /\ nextNodeIndex = 0

\* C23: in the idle variant a NextNode whose due-check fires while the updater is
\* inside updateLiveNodes is a no-op: it leaves no signal in aln.updateSignal that
\* would make the updater refresh once more after the current refresh
C23_DueCheckWhileRefreshingQueuesNothing ==
    [][(impl = "idle" /\ \E g \in Goroutines : InRefresh(g))
          => updateSignal' <= updateSignal]_vars

\* the updater goroutines that exist
Updaters == {g \in Goroutines : thr[g].op = "idleUpd" /\ thr[g].pc # "free"}

\* C24: in the idle variant at most one updater goroutine is ever started, however
\* Start() and NextNode() calls race, and so at most one updateLiveNodes is in
\* flight at any time
C24_OneUpdaterEver ==
    /\ [](impl = "idle" => /\ Cardinality(Updaters) <= 1
                           /\ Cardinality({t \in Threads : InRefresh(t)}) <= 1)
    /\ [][(impl = "idle" /\ Updaters' \ Updaters # {})
             => (~idleUpdaterStarted /\ idleUpdaterStarted')]_vars

\* two NextNode calls are under way at once and the one updater is refreshing
C24_Witness ==
    /\ impl = "idle" /\ idleUpdaterStarted
    /\ \A c \in Callers : thr[c].op = "NextNode" /\ thr[c].pc # "idle"
    /\ \E g \in Updaters : InRefresh(g)

\* the HTTP call of a refresh attempt that holds the flag has returned
AttemptReturned ==
    \E t \in Threads : thr[t].op \in {"bg", "UpdateOnce"} /\ thr[t].res # NoResp

\* C25: in the flag variant every refresh attempt started by NextNode or UpdateOnce
\* clears the updating flag once its HTTP call has returned, whatever the outcome,
\* so that a later NextNode can try again when the schedule is due
C25_FlagClearedAfterAttempt ==
    (impl = "flag" /\ updating /\ AttemptReturned) ~> ~updating

\* an attempt of NextNode failed and left the list as it was, the schedule became
\* due again and a later NextNode has launched the next attempt
C25_Witness ==
    /\ impl = "flag" /\ updating /\ nextUpdate > 0 /\ nextUpdate < now
    /\ liveNodes = initialNodes
    /\ \E g \in Goroutines : thr[g].op = "bg" /\ InRefresh(g)

\* C26: in the flag variant the refreshes NextNode starts are spaced by the update
\* period: a NextNode launches its goroutine only when the clock has passed the
\* nextUpdate that the last completed refresh stored, even if it loaded nextUpdate
\* before that refresh completed
C26_RefreshesSpacedByPeriod ==
    [][(impl = "flag" /\ \E g \in Goroutines : thr[g].pc = "free" /\ thr'[g].op = "bg")
          => nextUpdate < now]_vars

\* the element that follows v in the rotation of list, whose elements are distinct
RotationNext(list, v) ==
    LET i == CHOOSE j \in 1..Len(list) : list[j] = v
    IN list[(i % Len(list)) + 1]

\* C27: a background refresh that leaves the list as it is does not disturb the
\* rotation its callers see: the addresses returned to one goroutine that calls
\* NextNode again and again follow each other in the order of the list, as they do
\* when no refresh runs
C27_RefreshKeepsRotation ==
    (harness /\ impl = "flag" /\ OnlyCaller(1) /\ liveNodes = initialNodes) =>
       \A i \in 1..(Len(trace.vals) - 1) :
          trace.vals[i + 1] = RotationNext(liveNodes, trace.vals[i])

\* the elements of a list
Members(list) == {list[i] : i \in 1..Len(list)}

\* C28: every refresh request goes to a member of the NodeSet of the moment at which
\* its contact node is picked: the node a refresh of AlternatorLiveNodes got from
\* nextNode is in the list while the request is prepared, and the node the update of
\* AlternatorNodes read in pickNode is in n.nodes while it holds the mutex
C28_ContactNodeIsMember ==
    \A t \in Threads :
       /\ (IsALN /\ thr[t].op \in RefreshOps /\ thr[t].pc = "ul_fetch")
             => thr[t].ret \in Members(nextNodeSnapshot(liveNodes, initialNodes))
       /\ (impl \in {"mutex", "legacy"} /\ thr[t].op = "update" /\ thr[t].pc = "pn_incr")
             => thr[t].ret \in Members(nodes)

\* a refresh has replaced the seed list and a later refresh has picked its contact
\* node from the new list
C28_Witness ==
    /\ IsALN /\ liveNodes # initialNodes
    /\ \E t \in Threads : /\ thr[t].op \in RefreshOps /\ thr[t].pc = "ul_fetch"
                           /\ thr[t].ret \in Members(liveNodes)
                           /\ thr[t].ret \notin Members(initialNodes)

\* the requests t made through nextAsLocalNodesURL
LocalNodesQueries(t) ==
    IF thr[t].op \in RefreshOps \cup {"CheckSet"}
    THEN {thr[t].reqs[i].query : i \in 1..Len(thr[t].reqs)}
    ELSE {}

\* C29: the query nextAsLocalNodesURL builds depends on the rack and the datacenter
\* of the directory's configuration only: none when both are empty, rack=<rack>
\* when only the rack is set, dc=<datacenter> when only the datacenter is set,
\* rack=<rack>&dc=<datacenter> when both are set
C29_QueryFromFilterConfig ==
    IsALN =>
       \A t \in Threads : \A query \in LocalNodesQueries(t) :
          /\ (cfg.Rack = "" /\ cfg.Datacenter = "") => query = <<>>
          /\ (cfg.Rack # "" /\ cfg.Datacenter = "") => query = <<<<"rack", cfg.Rack>>>>
          /\ (cfg.Rack = "" /\ cfg.Datacenter # "") => query = <<<<"dc", cfg.Datacenter>>>>
          /\ (cfg.Rack # "" /\ cfg.Datacenter # "")
                => query = <<<<"rack", cfg.Rack>>, <<"dc", cfg.Datacenter>>>>

\* a directory with a rack and a datacenter has asked a node
C29_Witness ==
    /\ cfg.Rack # "" /\ cfg.Datacenter # ""
    /\ \E t \in Threads : <<<<"rack", cfg.Rack>>, <<"dc", cfg.Datacenter>>>> \in LocalNodesQueries(t)

\* C30: in Alternator.js the list hosts is not empty once init has run, whatever
\* initialHosts was and whatever the background updates brought (only init writes
\* enableBackgroundUpdates, which is true in the loaded module and true after every
\* init that found a host that is not local: an empty hosts with the updates
\* enabled is the module before init, anything else comes after init)
C30_HostsNonEmptyAfterInit ==
    (impl = "js" /\ ~(js.hosts = <<>> /\ js.enableBackgroundUpdates)) => Len(js.hosts) > 0

\* C31: in Alternator.js at most one updateHosts chain is active (waiting for its
\* answer or sleeping before its next round) at any time, for every sequence of
\* init() and done()
C31_OneUpdateChain ==
    impl = "js" => js.fetching + js.sleeping <= 1

\* C32: in the C++ AlternatorClient every request FetchLocalNodes sends goes to the
\* path /localnodes of a node of the list, before and after a refresh has
\* replaced the list
C32_DiscoveryTargetsLocalnodes ==
    impl = "cpp" =>
       \A t \in Threads :
          thr[t].pc = "fl_http" =>
             /\ thr[t].reqs[1].path = localnodes
             /\ \E i \in 1..Len(alternatorClient.nodes) :
                   alternatorClient.nodes[i].host = thr[t].reqs[1].host

\* C33: in go-v2, Stop() on a directory on which Start() was never called returns
\* normally and changes nothing of the directory
C33_StopUnstartedReturns ==
    [][\A c \in Callers :
          (MuStop(c) /\ Len(ctxs) = 0) => (thr'[c].pc = "st_ret" /\ muVars' = muVars)]_vars

\* the operations of the two probes
CheckOps == {"CheckSet", "CheckSupported", "CheckSupportedFake"}

\* C34: no step of CheckIfRackAndDatacenterSetCorrectly or of
\* CheckIfRackDatacenterFeatureIsSupported changes liveNodes, nextUpdate or updating,
\* whatever the server answers; of the directory they change the cursor only
C34_ProbesChangeCursorOnly ==
    [][\A c \in Callers :
          (thr'[c] # thr[c] /\ (thr[c].op \in CheckOps \/ thr'[c].op \in CheckOps))
             => /\ liveNodes' = liveNodes /\ nextUpdate' = nextUpdate /\ updating' = updating
                /\ <<initialNodes, idleUpdaterStarted, ctxDone, updateSignal, tickC, tickAt>>'
                      = <<initialNodes, idleUpdaterStarted, ctxDone, updateSignal, tickC, tickAt>>]_vars

\* a probe has returned after the server sent it a list that is not the stored one,
\* and has advanced the cursor
C34_Witness ==
    \E c \in Callers :
       /\ thr[c].op \in CheckOps /\ thr[c].pc = "ck_ret" /\ nextLiveNodeIdx > 0
       /\ \E i \in 1..Len(thr[c].reqs) :
             /\ ~getNodes(thr[c].reqs[i].resp).err
             /\ getNodes(thr[c].reqs[i].resp).uris \notin {<<>>, liveNodes}

\* C35: the two /localnodes requests of one CheckIfRackDatacenterFeatureIsSupported
\* call, with and without rack=fakeRack, go to the same node, for every size of the
\* list
C35_ProbePairSameNode ==
    IsALN =>
       \A c \in Callers :
          (thr[c].op = "CheckSupportedFake" /\ Len(thr[c].uris) = 2)
             => thr[c].uris[1] = thr[c].uris[2]

\* C36: for every value of the cursor counter, also after it has wrapped past its
\* maximum (uint64 in Go, int in Java and C#), the index next() computes for a list
\* of K >= 1 nodes is in [0, K)
C36_IndexInRangeAtEveryCount ==
    calls > 0 => cursor.index \in 0..(Len(liveNodes) - 1)

\* the counter has wrapped and next() has used a wrapped value on a list of three
C36_Witness ==
    /\ Len(liveNodes) = 3 /\ calls = 2
    /\ \/ impl = "java" /\ cursor.value = MinInt32 + 1 /\ cursor.index = 2
       \/ impl = "csharp" /\ cursor.value = MinInt32 + 1 /\ cursor.index = 1
       \/ impl = "flag" /\ cursor.value = <<1, 0, 0, 0>> /\ cursor.index = 1

\* the filter of a directory
Filter(config) == [Datacenter |-> config.Datacenter, Rack |-> config.Rack]

\* pickSupportedDatacenterRack is at work or has just returned or thrown
Picking(c) == thr[c].op = "pickSupportedDatacenterRack"

\* C37: pickSupportedDatacenterRack makes at most one recursive call and at most
\* three requests in each of its at most two runs, so it always comes to an end;
\* the directory it returns has the filter asked for, or that datacenter with no
\* rack, or no filter at all, and it has no filter whenever the server was found
\* not to support filtering
C37_PickTerminatesWithKnownFilter ==
    \A c \in Callers :
       Picking(c) =>
          /\ thr[c].depth <= 1
          /\ Len(thr[c].reqs) <= 3 * (thr[c].depth + 1)
          /\ thr[c].pc = "ps_ret" =>
                /\ Filter(cfg) \in {Filter(options), retryFilter(options.Datacenter, options.Rack), noFilter}
                /\ thr[c].ret = "unsupported" => Filter(cfg) = noFilter

\* the function has returned a directory of the datacenter without the rack, after
\* the server knew no node of the rack
C37_Witness ==
    \E c \in Callers :
       /\ Picking(c) /\ thr[c].pc = "ps_ret" /\ thr[c].depth = 1
       /\ options.Rack # "" /\ options.Datacenter # ""
       /\ Filter(cfg) = retryFilter(options.Datacenter, options.Rack)
       /\ Len(thr[c].reqs) = 6

\* C38: AWSConfig with a client certificate source and an HTTP client whose
\* transport is a *http.Transport returns no error and a configuration whose transport
\* has the certificate installed; it returns an error only for a transport of a type
\* that cannot be patched
C38_AWSConfigInstallsCertificate ==
    \A c \in Callers :
       (thr[c].op = "AWSConfig" /\ thr[c].snap.cert) =>
          /\ thr[c].res.transport = "std" => (thr[c].res.kind = "ok" /\ thr[c].res.patched)
          /\ thr[c].res.kind = "error" => thr[c].res.transport # "std"

\* C39: for a file-backed CertSource that has loaded a certificate, every later
\* GetCertificate returns a certificate and no error; when the file cannot be
\* stat'ed or loaded it returns the cached certificate and leaves the cached
\* certificate and modification time as they were; it loads only when the file's
\* modification time differs from the cached one; and an error is returned only
\* when no certificate was ever loaded
C39_CachedCertificateSurvives ==
    [][\A c \in Callers :
          (GetCertificate(c) /\ certSource.certPath # "") =>
             /\ thr'[c].res.err => certSource.cert = nil
             /\ certSource.cert # nil =>
                   /\ thr'[c].res.cert # nil /\ ~thr'[c].res.err
                   /\ thr'[c].res.load => certFile.modTime # certSource.modTime
                   /\ (~certFile.stat \/ certFile.pair = nil) =>
                         (thr'[c].res.cert = certSource.cert /\ certSource' = certSource)]_vars

\* a call has returned the cached certificate after a load that failed
C39_Witness ==
    \E c \in Callers :
       /\ thr[c].op = "GetCertificate" /\ certSource.certPath # ""
       /\ thr[c].res.load /\ certFile.stat /\ certFile.pair = nil
       /\ thr[c].res.cert = certSource.cert /\ certSource.cert # nil
       /\ certSource.modTime # certFile.modTime

TypeOK ==
    /\ impl \in {"flag", "idle", "mutex", "legacy", "js", "java", "csharp", "http", "cpp"}
    /\ nextLiveNodeIdx \in Nat
    /\ updateSignal \in 0..1
====
